---- MODULE Spec2Model ----
(***************************************************************************)
(* A model of zustand-kit's keyed global store registry                    *)
(* (src/src/index.tsx): the registry globalStates, the per-key store built  *)
(* by useGlobalState (value, setValue, reset), the listener list of each    *)
(* store, the hooks that bind to a store and the non-React accessors.       *)
(*                                                                         *)
(* JavaScript values are records [t, id, n, fs]: t is the runtime type, id  *)
(* the reference of an object or array (0 for primitives), n the number of  *)
(* a "num", fs the own enumerable properties (arrays use the keys "0"..).   *)
(* A write commits the new value and then notifies the listeners one by one *)
(* (the vanilla store's listeners.forEach); the round is a stack frame, so  *)
(* a callback that writes again nests a round inside the running one.       *)
(***************************************************************************)
EXTENDS Integers, Sequences, FiniteSets, TLC

\* ---------------------------------------------------------------- bounds
MaxStores == 2
MaxSubs == 2
MaxWrites == 2

Keys == {"k1", "k2"}

\* The key parameter is any string: the empty one is a key as well.
EmptyKey == ""

\* A key may hold the '-' that joins the segments of a storage name.
DashKey == "state-k1"

AllKeys == Keys \cup {EmptyKey, DashKey}

\* ---------------------------------------------------------------- values
EmptyFs == [k \in {} |-> 0]

Num(n) == [t |-> "num", id |-> 0, n |-> n, fs |-> EmptyFs]
NaN == [t |-> "nan", id |-> 0, n |-> 0, fs |-> EmptyFs]
Null == [t |-> "null", id |-> 0, n |-> 0, fs |-> EmptyFs]
Undefined == [t |-> "undefined", id |-> 0, n |-> 0, fs |-> EmptyFs]
Obj(id, fs) == [t |-> "obj", id |-> id, n |-> 0, fs |-> fs]
Arr(id, fs) == [t |-> "arr", id |-> id, n |-> 0, fs |-> fs]

\* A React element: an object that React.isValidElement recognises.
Elem(id, fs) == [t |-> "elem", id |-> id, n |-> 0, fs |-> fs]

IsRef(v) == v.t \in {"obj", "arr", "elem"}

\* typeof v === 'object' && v !== null
IsNonNullObject(v) == v.t \in {"obj", "arr", "elem"}

\* typeof v === 'object' && v !== null && !Array.isArray(v)
IsPlainObject(v) == v.t \in {"obj", "elem"}

\* React.isValidElement(v)
IsValidElement(v) == v.t = "elem"

\* Object.is(x, y): references for objects and arrays, NaN equal to itself.
ObjectIs(x, y) ==
  IF IsRef(x) \/ IsRef(y) THEN x.t = y.t /\ x.id = y.id ELSE x = y

\* The own enumerable properties an object spread {...v} copies.
SpreadProps(v) == IF IsRef(v) THEN v.fs ELSE EmptyFs

\* { ...v, ...p } allocated at reference id.
Spread2(v, p, id) ==
  LET a == SpreadProps(v)
      b == SpreadProps(p)
  IN  Obj(id, [k \in (DOMAIN a) \cup (DOMAIN b) |->
                 IF k \in DOMAIN b THEN b[k] ELSE a[k]])

\* ----------------------------------------------------- caller's updaters
\* A functional updater is one of three caller functions:
\*   "inc"   prev => prev + 1           (called on numbers, NaN and null)
\*   "mk"    prev => ({ b: 1 })         (a fresh object, whatever prev is)
\*   "same"  prev => prev
Fn(name) == [k |-> "fn", f |-> name, v |-> Undefined]
Val(v) == [k |-> "val", f |-> "", v |-> v]

FnNames == {"inc", "mk", "same"}

FnDefined(name, v) == name = "inc" => v.t \in {"num", "nan", "null"}

ApplyFn(name, v, id) ==
  CASE name = "inc" -> (CASE v.t = "num" -> Num(v.n + 1)
                          [] v.t = "null" -> Num(1)
                          [] OTHER -> NaN)
    [] name = "mk" -> Obj(id, [k \in {"b"} |-> 1])
    [] OTHER -> v
\* A setValue that treats the result of a functional updater like a partial
\* object: it is merged into the current value of an object store.
SetValueResultMergingFn(isObject, cur, u, id) ==
  LET r == IF u.k = "fn" THEN ApplyFn(u.f, cur, id) ELSE u.v
  IN  IF isObject /\ IsNonNullObject(r) THEN Spread2(cur, r, id) ELSE r

\* A setValue that decides by the value the store holds at the call: a
\* plain-object updater is merged into a current value that is an object.
SetValueResultByShape(isObject, cur, u, id) ==
  IF u.k = "fn" THEN ApplyFn(u.f, cur, id)
  ELSE IF IsPlainObject(cur) /\ IsNonNullObject(u.v) THEN Spread2(cur, u.v, id)
  ELSE u.v

\* store.getState().setValue(value): the value the store commits for updater
\* u when its value is cur; isObject is the flag captured at creation and
\* id the reference a newly built object gets.
SetValueResult(isObject, cur, u, id) ==
  IF u.k = "fn" THEN ApplyFn(u.f, cur, id)
  ELSE IF isObject /\ IsNonNullObject(u.v) THEN Spread2(cur, u.v, id)
  ELSE u.v

\* The initial values a creating call is tried with (lit: a fresh reference).
InitInputs(lit) ==
  { Num(0), Null,
    Obj(lit, [k \in {"a", "b"} |-> 0]),
    Arr(lit, [k \in {"0"} |-> 0]) }

\* The updaters a set call is tried with on a store whose value is cur.
UpdaterInputs(cur, lit) ==
  { Val(Num(1)), Val(NaN), Val(Null),
    Val(Obj(lit, [k \in {"a"} |-> 1])),
    Val(Arr(lit, [k \in {"0"} |-> 1])),
    Val(cur) }
  \cup { Fn(f) : f \in { g \in FnNames : FnDefined(g, cur) } }

\* The values a subscriber callback may write back: the callback
\*   (newValue) => { if (!Object.is(newValue, m)) setGlobalState(key, m) }
\* has behaviour m; behaviour NoWrite is a callback that only records its
\* call.
NoWrite == Undefined
Behaviours == {NoWrite, Num(0), Num(2)}

\* ------------------------------------------------------------ the state
VARIABLES
  globalStates,  \* key -> index into stores, 0 when the key has no store
  stores,        \* every store ever created (a cleared store lives on in
                 \* the closures that captured it)
  subs,          \* hook instances and external subscriptions
  stack,         \* the notification rounds in progress, innermost last
  writes,        \* number of set and reset calls made by the caller
  firstInit,     \* key -> the initialState of the call that created its store
  lastCall,      \* how the last API call ended
  media,         \* localStorage and sessionStorage: their items, and whether
                 \* the quota is reached
  env            \* process.env.NODE_ENV of the build

vars ==
  <<globalStates, stores, subs, stack, writes, firstInit, lastCall, media,
    env>>

NoStore == 0

StoreIds == 1..Len(stores)
SubIds == 1..Len(subs)

Idle == stack = <<>>

\* Object references.  A reference is a name for an identity, so a new
\* object may take any name no live value has: the smallest one.
RefsOf(vs) == { v.id : v \in { w \in vs : IsRef(w) } }

LiveRefs ==
  RefsOf({ stores[st].value : st \in StoreIds })
  \cup RefsOf({ stores[st].initialState : st \in StoreIds })
  \cup RefsOf({ subs[s].seen : s \in SubIds })
  \cup RefsOf({ stack[i].state : i \in 1..Len(stack) })
  \cup RefsOf({ stack[i].prev : i \in 1..Len(stack) })
  \cup RefsOf({ firstInit[k] : k \in AllKeys })

FreshAfter(used) ==
  CHOOSE n \in 1..(Cardinality(used) + 1) :
    n \notin used /\ \A m \in 1..(n - 1) : m \in used

\* The reference of the next object built, and of the one built after it.
nextId == FreshAfter(LiveRefs)
nextId2 == FreshAfter(LiveRefs \cup {nextId})

\* The reference of the object literal a caller passes to the setter of
\* store st, and that of the object setValue builds from it.
LitId(st) == IF st # NoStore /\ stores[st].isObject THEN nextId2 ELSE nextId
NewId(st) == nextId

\* `Global state with key "${key}" not found. Initialize it with
\* useGlobalState first.`
NotFoundMessage(key) ==
  <<"Global state with key \"", key,
    "\" not found. Initialize it with useGlobalState first.">>

NoMessage == <<>>

\* How a call ended: the error it threw, or the key it reported missing and
\* returned (warned tells the report apart when the key is the empty
\* string).  A call that found its store leaves Returned.
Threw(message) == [threw |-> message, missing |-> "", warned |-> FALSE]

Missing(key) == [threw |-> NoMessage, missing |-> key, warned |-> TRUE]

Returned == [threw |-> NoMessage, missing |-> "", warned |-> FALSE]

\* The values of process.env.NODE_ENV.
Envs == {"development", "production"}

\* ------------------------------------------------------------ persistence
\* The storage option of useGlobalState and the media behind it.
Storages == {"none", "localStorage", "sessionStorage"}

Media == {"localStorage", "sessionStorage"}

\* A store that saves every persisted value in localStorage.
StorageImplLocalOnly(storage) == "localStorage"

\* const storageImpl = storage === 'localStorage' ? localStorage : sessionStorage
StorageImpl(storage) ==
  IF storage = "localStorage" THEN "localStorage" ELSE "sessionStorage"

\* Strings that are joined with '-' are sequences of their segments, so the
\* template `${storageKey}-${key}` is a concatenation; the default storageKey
\* is 'global-state'.
DefaultStorageKey == <<"global", "state">>

StorageKeys == { DefaultStorageKey, <<"app">> }

\* The segments of a key.
Segments(key) == IF key = DashKey THEN <<"state", "k1">> ELSE <<key>>

Name(storageKey, key) == storageKey \o Segments(key)

\* The names the stores of the specifications save under.
Names ==
  { Name(sk, k) : sk \in StorageKeys, k \in Keys }
  \cup { Name(<<"global">>, DashKey) }

\* What a medium holds under a name: nothing, the text persist wrote, or a
\* text JSON.parse rejects.
NoItem == [item |-> "none", value |-> Undefined]
Corrupt == [item |-> "corrupt", value |-> Undefined]
Json(text) == [item |-> "json", value |-> text]

\* JSON.stringify({ state: { value }, version: 0 }): NaN is written as null,
\* a value that is undefined is left out, and an object or array as its
\* content, without its identity.
Serialize(v) ==
  CASE v.t = "nan" -> Null
    [] IsRef(v) -> [v EXCEPT !.id = 0]
    [] OTHER -> v

\* JSON.parse of a text: an object or array is a new one, at reference id.
Parse(text, id) == IF IsRef(text) THEN [text EXCEPT !.id = id] ELSE text

NoMedia == [m \in Media |-> [full |-> FALSE, items |-> [n \in Names |-> NoItem]]]

\* A medium that keeps one text for all names.
SetItemAnywhere(md, m, name, item) ==
  [md EXCEPT ![m].items = [n \in Names |-> item]]

\* storage.setItem(name, text)
SetItem(md, m, name, item) == [md EXCEPT ![m].items[name] = item]

\* localStorage.setItem throws this when the quota is reached.
QuotaMessage == <<"QuotaExceededError">>

Init ==
  /\ globalStates = [k \in AllKeys |-> NoStore]
  /\ stores = <<>>
  /\ subs = <<>>
  /\ stack = <<>>
  /\ writes = 0
  /\ firstInit = [k \in AllKeys |-> Undefined]
  /\ lastCall = Returned
  /\ media = NoMedia
  /\ env = "development"

\* An accessor that warns whatever the build.
WarnedAlways(key) == Missing(key)

\* if (process.env.NODE_ENV !== 'production') { console.warn(...) } return
Warned(key) == IF env # "production" THEN Missing(key) ELSE Returned

\* zustand's create(stateCreator): the store of a key, with the flag
\* isObject computed once from initialState.
NewStore(key, initialState) ==
  [key |-> key,
   value |-> initialState,
   initialState |-> initialState,
   isObject |-> IsPlainObject(initialState),
   listeners |-> <<>>,
   rev |-> 0,
   storage |-> "none",
   name |-> <<>>]

\* A hook instance or an external subscription.  seen is what the holder
\* last observed: the rendered value of a hook, prevValue of a subscription;
\* calls counts the renders the store caused, or the calls of the callback,
\* last is the number of the commit the callback was last called for, arg
\* the newValue of that call (before any call, the value at subscription),
\* since the number of the last commit made before the subscription (both
\* kept for external subscriptions only), and
\* gone the number of the commit during whose round a callback unsubscribed
\* it (0 when none did).
NewSub(kind, key, st, active, sel, seen, beh) ==
  [kind |-> kind, key |-> key, store |-> st, active |-> active, sel |-> sel,
   seen |-> seen, beh |-> beh, calls |-> 0, last |-> 0,
   arg |-> IF kind = "ext" THEN seen ELSE Undefined,
   since |-> IF kind = "ext" /\ st \in DOMAIN stores
             THEN stores[st].rev ELSE 0,
   gone |-> 0]

\* The selectors a hook reads the store with: the whole value
\* (state) => state.value, or one field (state) => state?.a.
Select(sel, v) ==
  IF sel = "value" THEN v
  ELSE IF IsRef(v) /\ sel \in DOMAIN v.fs THEN Num(v.fs[sel])
  ELSE Undefined

\* A store with one listener slot: a new listener replaces the others.
AddListenerReplacing(ss, st, s) ==
  [ss EXCEPT ![st].listeners = <<s>>]

\* listeners.add(listener) / listeners.delete(listener)
AddListener(ss, st, s) ==
  [ss EXCEPT ![st].listeners = Append(@, s)]

\* An unsubscribe that deletes nothing.
RemoveListenerNone(ss, st, s) == ss

RemoveListener(ss, st, s) ==
  [ss EXCEPT ![st].listeners = SelectSeq(@, LAMBDA x : x # s)]

\* The call store.getState().reset() as the cause of a write.
ResetCall == [k |-> "reset", f |-> "", v |-> Undefined]

\* zustand's set: the state is replaced.  rev numbers the writes committed to
\* the store, in commit order.
Commit(st, newv) ==
  [stores EXCEPT ![st].value = newv, ![st].rev = @ + 1]

\* The round a commit starts: listeners.forEach(l => l(state, previousState)),
\* running inside the call (setValue(u) or reset()) that committed state.
\* visited are the listeners the round has called, resume the subscriber
\* whose callback is running a nested write, rev the number of the commit.
Frame(st, call, state, prev) ==
  [store |-> st, call |-> call, state |-> state, prev |-> prev,
   visited |-> {}, resume |-> 0, rev |-> stores[st].rev + 1]

ValueOf(st) == IF st = NoStore THEN Undefined ELSE stores[st].value

\* getGlobalState(key): store?.getState().value
getGlobalState(key) == ValueOf(globalStates[key])

OfKind(kinds) == { s \in SubIds : subs[s].kind \in kinds }

\* A set that starts no round when the value it commits is the current one.
SetValueSkippingSame(st, u) ==
  LET cur == stores[st].value
      newv == SetValueResult(stores[st].isObject, cur, u, NewId(st))
  IN  IF ObjectIs(newv, cur) THEN UNCHANGED <<stores, stack>>
      ELSE /\ stores' = Commit(st, newv)
           /\ stack' = Append(stack, Frame(st, u, newv, cur))

\* ------------------------------------------------ writes from the caller
\* store.getState().setValue(u): the value is committed and the round of the
\* store's listeners starts.
SetValue(st, u) ==
  LET cur == stores[st].value
      newv == SetValueResult(stores[st].isObject, cur, u, NewId(st))
  IN  /\ stores' = Commit(st, newv)
      /\ stack' = Append(stack, Frame(st, u, newv, cur))

\* A reset that installs the initial value without telling the listeners.
ResetSilent(st) ==
  /\ stores' = Commit(st, stores[st].initialState)
  /\ UNCHANGED stack

\* A reset that goes through setValue(initialState), merging into the
\* current value of an object store.
ResetThroughSetValue(st) ==
  LET cur == stores[st].value
      newv == SetValueResult(stores[st].isObject, cur,
                             Val(stores[st].initialState), NewId(st))
  IN  /\ stores' = Commit(st, newv)
      /\ stack' = Append(stack, Frame(st, ResetCall, newv, cur))

\* store.getState().reset(): set({ value: initialState }).
Reset(st) ==
  LET cur == stores[st].value
      newv == stores[st].initialState
  IN  /\ stores' = Commit(st, newv)
      /\ stack' = Append(stack, Frame(st, ResetCall, newv, cur))

CanWrite == writes < MaxWrites

CanCreate(key) == globalStates[key] = NoStore => Len(stores) < MaxStores

CanAdd == Len(subs) < MaxSubs

\* ------------------------------------------------------------ the hooks
\* A creating call that builds its store again on every call.
CreatedAgain(key, initialState) ==
  IF globalStates[key] # NoStore
  THEN [stores EXCEPT ![globalStates[key]].value = initialState,
                      ![globalStates[key]].initialState = initialState]
  ELSE Append(stores, NewStore(key, initialState))

\* A creating call that hands the new store the callbacks that asked for
\* the key while it had no store.
CreatedAdopting(key, initialState) ==
  IF globalStates[key] # NoStore THEN stores
  ELSE Append(stores,
         [NewStore(key, initialState) EXCEPT
            !.listeners =
               SelectSeq([i \in 1..Len(subs) |-> i],
                         LAMBDA i : /\ subs[i].kind = "ext"
                                    /\ subs[i].key = key
                                    /\ subs[i].store = NoStore)])

\* if (!globalStates.has(key)) { ... globalStates.set(key, store) }
Created(key, initialState) ==
  IF globalStates[key] # NoStore THEN stores
  ELSE Append(stores, NewStore(key, initialState))

\* A registry that looks every key up in one slot.
CreatedIdOneSlot(key) ==
  IF Len(stores) > 0 THEN 1 ELSE Len(stores) + 1

CreatedId(key) ==
  IF globalStates[key] # NoStore THEN globalStates[key] ELSE Len(stores) + 1

\* useGlobalState(key, initialState) in a component that mounts: the store
\* is created when the key has none, and the hook subscribes to it.
UseGlobalState(key, initialState) ==
  /\ Idle /\ CanCreate(key) /\ CanAdd
  /\ LET st == CreatedId(key)
         ss == Created(key, initialState)
         h == Len(subs) + 1
     IN  /\ globalStates' = [globalStates EXCEPT ![key] = st]
         /\ stores' = AddListener(ss, st, h)
         /\ subs' = Append(subs, NewSub("hook", key, st, TRUE, "value",
                                        ss[st].value, NoWrite))
  /\ firstInit' = IF globalStates[key] # NoStore THEN firstInit
                  ELSE [firstInit EXCEPT ![key] = initialState]
  /\ lastCall' = Returned
  /\ UNCHANGED <<stack, writes, media, env>>

\* The component of hook h renders again: useGlobalState runs again with
\* the same key, creates the store if the registry lost it, and the hook
\* follows the registry's store.
Rerender(h, initialState) ==
  /\ Idle /\ CanCreate(subs[h].key)
  /\ subs[h].kind = "hook" /\ subs[h].active
  /\ LET key == subs[h].key
         st == CreatedId(key)
         ss == Created(key, initialState)
         old == subs[h].store
     IN  /\ globalStates' = [globalStates EXCEPT ![key] = st]
         /\ stores' = IF st = old THEN ss
                      ELSE AddListener(RemoveListener(ss, old, h), st, h)
         /\ subs' = [subs EXCEPT ![h].store = st, ![h].seen = ss[st].value]
         /\ firstInit' = IF globalStates[key] # NoStore THEN firstInit
                         ELSE [firstInit EXCEPT ![key] = initialState]
  /\ lastCall' = Returned
  /\ UNCHANGED <<stack, writes, media, env>>

\* useGlobalState(key, initialState) in a render that React does not commit
\* (the component suspends, or the render is thrown away): the render has
\* created and registered the store, and no listener is added.
UseGlobalStateRender(key, initialState) ==
  /\ Idle /\ CanCreate(key)
  /\ globalStates' = [globalStates EXCEPT ![key] = CreatedId(key)]
  /\ stores' = Created(key, initialState)
  /\ firstInit' = IF globalStates[key] # NoStore THEN firstInit
                  ELSE [firstInit EXCEPT ![key] = initialState]
  /\ lastCall' = Returned
  /\ UNCHANGED <<subs, stack, writes, media, env>>

\* A creation that does not read the medium.
HydrateNever(initialState, m, name, id) == initialState

\* persist's hydration when the store is created: the item under the name is
\* read and parsed, and { ...state, ...item.state } becomes the state; an
\* item that is missing, has no value or cannot be parsed leaves the state.
Hydrate(initialState, m, name, id) ==
  LET item == media[m].items[name]
  IN  IF item.item = "json" /\ item.value # Undefined
      THEN Parse(item.value, id)
      ELSE initialState

\* A creating call whose options replace those of the store it finds.
CreatedWithLatest(key, initialState, storage, storageKey) ==
  IF globalStates[key] # NoStore
  THEN [stores EXCEPT
          ![globalStates[key]].storage = storage,
          ![globalStates[key]].name =
             IF storage = "none" THEN <<>> ELSE Name(storageKey, key)]
  ELSE IF storage = "none" THEN Append(stores, NewStore(key, initialState))
  ELSE Append(stores,
         [NewStore(key, initialState) EXCEPT
            !.storage = storage,
            !.name = Name(storageKey, key),
            !.value = Hydrate(initialState, StorageImpl(storage),
                              Name(storageKey, key), nextId2)])

\* A persisted store whose reset goes back to the value it loaded.
CreatedWithLoadedInitial(key, initialState, storage, storageKey) ==
  IF globalStates[key] # NoStore THEN stores
  ELSE IF storage = "none" THEN Append(stores, NewStore(key, initialState))
  ELSE LET loaded == Hydrate(initialState, StorageImpl(storage),
                             Name(storageKey, key), nextId2)
       IN  Append(stores,
             [NewStore(key, initialState) EXCEPT
                !.storage = storage,
                !.name = Name(storageKey, key),
                !.value = loaded,
                !.initialState = loaded])

\* create()(persist(stateCreator, { name, storage })) for storage other than
\* 'none', create(stateCreator) otherwise, when the key has no store.
CreatedWith(key, initialState, storage, storageKey) ==
  IF globalStates[key] # NoStore THEN stores
  ELSE IF storage = "none" THEN Append(stores, NewStore(key, initialState))
  ELSE Append(stores,
         [NewStore(key, initialState) EXCEPT
            !.storage = storage,
            !.name = Name(storageKey, key),
            !.value = Hydrate(initialState, StorageImpl(storage),
                              Name(storageKey, key), nextId2)])

\* useGlobalState(key, initialState, { storage, storageKey }) in a component
\* that mounts.  Whether persist writes the item again once it has hydrated
\* depends on the version of zustand (resave); a setItem that throws there
\* is caught by persist.
UseGlobalStateOptions(key, initialState, storage, storageKey, resave) ==
  /\ Idle /\ CanCreate(key) /\ CanAdd
  /\ LET st == CreatedId(key)
         ss == CreatedWith(key, initialState, storage, storageKey)
         h == Len(subs) + 1
         m == StorageImpl(storage)
     IN  /\ globalStates' = [globalStates EXCEPT ![key] = st]
         /\ stores' = AddListener(ss, st, h)
         /\ subs' = Append(subs, NewSub("hook", key, st, TRUE, "value",
                                        ss[st].value, NoWrite))
         /\ media' = IF /\ globalStates[key] = NoStore
                        /\ storage # "none"
                        /\ resave
                        /\ ~media[m].full
                     THEN SetItem(media, m, ss[st].name,
                                  Json(Serialize(ss[st].value)))
                     ELSE media
  /\ firstInit' = IF globalStates[key] # NoStore THEN firstInit
                  ELSE [firstInit EXCEPT ![key] = initialState]
  /\ lastCall' = Returned
  /\ UNCHANGED <<stack, writes, env>>

\* The medium reaches its quota: setItem throws from now on.
StorageFills(m) ==
  /\ Idle
  /\ ~media[m].full
  /\ media' = [media EXCEPT ![m].full = TRUE]
  /\ UNCHANGED <<globalStates, stores, subs, stack, writes, firstInit,
                 lastCall, env>>

\* The setter returned by useGlobalState: (value) => store.getState().setValue(value)
HookSetValue(h, u) ==
  /\ Idle /\ CanWrite
  /\ subs[h].kind = "hook"
  /\ SetValue(subs[h].store, u)
  /\ writes' = writes + 1
  /\ lastCall' = Returned
  /\ UNCHANGED <<globalStates, subs, firstInit, media, env>>

\* The reset returned by useGlobalState: () => store.getState().reset()
HookReset(h) ==
  /\ Idle /\ CanWrite
  /\ subs[h].kind = "hook"
  /\ Reset(subs[h].store)
  /\ writes' = writes + 1
  /\ lastCall' = Returned
  /\ UNCHANGED <<globalStates, subs, firstInit, media, env>>

\* A useGlobalSelector that treats a missing key like the non-React
\* accessors do: it reports the key and returns.
UseGlobalSelectorSoft(key, sel) ==
  /\ Idle
  /\ globalStates[key] # NoStore => CanAdd
  /\ LET st == globalStates[key]
         c == Len(subs) + 1
     IN  IF st = NoStore
         THEN /\ lastCall' = Missing(key)
              /\ UNCHANGED <<stores, subs>>
         ELSE /\ stores' = AddListener(stores, st, c)
              /\ subs' = Append(subs, NewSub("sel", key, st, TRUE, sel,
                                  Select(sel, stores[st].value), NoWrite))
              /\ lastCall' = Returned
  /\ UNCHANGED <<globalStates, stack, writes, firstInit, media, env>>

\* useGlobalSelector(key, selector): throws when the key has no store, else
\* subscribes with the selector.
UseGlobalSelector(key, sel) ==
  /\ Idle
  /\ globalStates[key] # NoStore => CanAdd
  /\ LET st == globalStates[key]
         c == Len(subs) + 1
     IN  IF st = NoStore
         THEN /\ lastCall' = Threw(NotFoundMessage(key))
              /\ UNCHANGED <<stores, subs>>
         ELSE /\ stores' = AddListener(stores, st, c)
              /\ subs' = Append(subs, NewSub("sel", key, st, TRUE, sel,
                                  Select(sel, stores[st].value), NoWrite))
              /\ lastCall' = Returned
  /\ UNCHANGED <<globalStates, stack, writes, firstInit, media, env>>

\* The equality functions a caller passes to useGlobalSelector:
\*   "sameA"  (x, y) => x.a === y.a
\*   "sameB"  (x, y) => x.b === y.b
EqualityFns == {"sameA", "sameB"}

EqualityFn(eq, x, y) ==
  LET k == IF eq = "sameA" THEN "a" ELSE "b"
      at(v) == IF IsRef(v) /\ k \in DOMAIN v.fs THEN Num(v.fs[k])
               ELSE Undefined
  IN  at(x) = at(y)

\* useGlobalSelector(key, selector, equalityFn) with a function that is not
\* Object.is: throws when the key has no store; else the component reads
\* through useSyncExternalStore(subscribe, getSnapshot, getSnapshot) with
\* getSnapshot = () => selector(store.getState().value), and equalityFn is
\* kept by nothing but the record of the call.
UseGlobalSelectorEq(key, sel, eq) ==
  /\ Idle
  /\ globalStates[key] # NoStore => CanAdd
  /\ LET st == globalStates[key]
         c == Len(subs) + 1
     IN  IF st = NoStore
         THEN /\ lastCall' = Threw(NotFoundMessage(key))
              /\ UNCHANGED <<stores, subs>>
         ELSE /\ stores' = AddListener(stores, st, c)
              /\ subs' = Append(subs,
                           [eq |-> eq]
                             @@ NewSub("selEq", key, st, TRUE, sel,
                                       Select(sel, stores[st].value), NoWrite))
              /\ lastCall' = Returned
  /\ UNCHANGED <<globalStates, stack, writes, firstInit, media, env>>

\* The component of a useGlobalSetter call: the store its function closes
\* over, and fn, the reference of the function useMemo holds.
NewSetter(key, st) ==
  [fn |-> 0] @@ NewSub("setter", key, st, TRUE, "", Undefined, NoWrite)

\* useGlobalSetter(key): throws when the key has no store, else returns the
\* setter of the store without subscribing.
UseGlobalSetter(key) ==
  /\ Idle
  /\ globalStates[key] # NoStore => CanAdd
  /\ LET st == globalStates[key]
     IN  IF st = NoStore
         THEN /\ lastCall' = Threw(NotFoundMessage(key))
              /\ UNCHANGED subs
         ELSE /\ subs' = Append(subs, NewSetter(key, st))
              /\ lastCall' = Returned
  /\ UNCHANGED <<globalStates, stores, stack, writes, firstInit, media, env>>

\* A useGlobalSetter without useMemo: every render builds a new function.
RerenderSetterNoMemo(c) ==
  /\ Idle
  /\ subs[c].kind = "setter"
  /\ globalStates[subs[c].key] # NoStore
  /\ subs' = [subs EXCEPT ![c].store = globalStates[subs[c].key],
                          ![c].fn = (@ + 1) % (MaxStores + 1)]
  /\ lastCall' = Returned
  /\ UNCHANGED <<globalStates, stores, stack, writes, firstInit, media, env>>

\* The component of setter c renders again: useGlobalSetter runs again with
\* the same key and throws when the registry lost the key; useMemo returns
\* the function of the last render unless the registry's store is another
\* one, and then builds a function on that store.
RerenderSetter(c) ==
  /\ Idle
  /\ subs[c].kind = "setter"
  /\ LET st == globalStates[subs[c].key]
     IN  IF st = NoStore
         THEN /\ lastCall' = Threw(NotFoundMessage(subs[c].key))
              /\ UNCHANGED subs
         ELSE /\ subs' = IF st = subs[c].store THEN subs
                         ELSE [subs EXCEPT ![c].store = st,
                                           ![c].fn = (@ + 1) % (MaxStores + 1)]
              /\ lastCall' = Returned
  /\ UNCHANGED <<globalStates, stores, stack, writes, firstInit, media, env>>

\* The setter returned by useGlobalSetter is called.
SetterSetValue(c, u) ==
  /\ Idle /\ CanWrite
  /\ subs[c].kind = "setter"
  /\ SetValue(subs[c].store, u)
  /\ writes' = writes + 1
  /\ lastCall' = Returned
  /\ UNCHANGED <<globalStates, subs, firstInit, media, env>>


\* ------------------------------------------------- the non-React accessors
\* A setGlobalState that creates the store of a missing key.
SetGlobalStateUpsert(key, u) ==
  /\ Idle
  /\ LET st == globalStates[key]
     IN  IF st = NoStore
         THEN /\ Len(stores) < MaxStores
              /\ globalStates' = [globalStates EXCEPT ![key] = Len(stores) + 1]
              /\ stores' = Append(stores, NewStore(key, u.v))
              /\ lastCall' = Returned
              /\ UNCHANGED <<stack, writes>>
         ELSE /\ CanWrite
              /\ SetValue(st, u)
              /\ writes' = writes + 1
              /\ lastCall' = Returned
              /\ UNCHANGED globalStates
  /\ UNCHANGED <<subs, firstInit, media, env>>

\* setGlobalState(key, u): warns and returns when the key has no store.
SetGlobalState(key, u) ==
  /\ Idle
  /\ LET st == globalStates[key]
     IN  IF st = NoStore
         THEN /\ lastCall' = Warned(key)
              /\ UNCHANGED <<stores, stack, writes>>
         ELSE /\ CanWrite
              /\ SetValue(st, u)
              /\ writes' = writes + 1
              /\ lastCall' = Returned
  /\ UNCHANGED <<globalStates, subs, firstInit, media, env>>

\* resetGlobalState(key): warns and returns when the key has no store.
ResetGlobalState(key) ==
  /\ Idle
  /\ LET st == globalStates[key]
     IN  IF st = NoStore
         THEN /\ lastCall' = Warned(key)
              /\ UNCHANGED <<stores, stack, writes>>
         ELSE /\ CanWrite
              /\ Reset(st)
              /\ writes' = writes + 1
              /\ lastCall' = Returned
  /\ UNCHANGED <<globalStates, subs, firstInit, media, env>>

\* Every callback that writes back writes the same value, so that a chain
\* of nested writes ends.
SameTarget(beh) ==
  beh # NoWrite => \A s \in SubIds : subs[s].beh \in {NoWrite, beh}

\* subscribeGlobalState(key, callback): with no store it warns and the
\* caller gets a function that does nothing; else prevValue is the current
\* value and the listener is added to the store.
SubscribeGlobalState(key, beh) ==
  /\ Idle /\ CanAdd
  /\ SameTarget(beh)
  /\ LET st == globalStates[key]
         s == Len(subs) + 1
     IN  IF st = NoStore
         THEN /\ subs' = Append(subs, NewSub("ext", key, NoStore, FALSE, "",
                                             Undefined, beh))
              /\ lastCall' = Warned(key)
              /\ UNCHANGED stores
         ELSE /\ subs' = Append(subs, NewSub("ext", key, st, TRUE, "",
                                             stores[st].value, beh))
              /\ stores' = AddListener(stores, st, s)
              /\ lastCall' = Returned
  /\ UNCHANGED <<globalStates, stack, writes, firstInit, media, env>>

\* The function subscribeGlobalState returned is called:
\* listeners.delete(listener), or nothing for the no-op function.
Unsubscribe(s) ==
  /\ Idle
  /\ subs[s].kind = "ext"
  /\ IF subs[s].store = NoStore
     THEN UNCHANGED <<stores, subs>>
     ELSE /\ stores' = RemoveListener(stores, subs[s].store, s)
          /\ subs' = [subs EXCEPT ![s].active = FALSE]
  /\ lastCall' = Returned
  /\ UNCHANGED <<globalStates, stack, writes, firstInit, media, env>>

\* __clearAllStates__(): globalStates.clear()
ClearAllStates ==
  /\ Idle
  /\ globalStates' = [k \in AllKeys |-> NoStore]
  /\ firstInit' = [k \in AllKeys |-> Undefined]
  /\ lastCall' = Returned
  /\ UNCHANGED <<stores, subs, stack, writes, media, env>>

\* --------------------------------------------------- a notification round
Top == stack[Len(stack)]

\* listeners.forEach over the live list: the next listener is the first one
\* still in the list that this round has not called.
Pending(fr) ==
  SelectSeq(stores[fr.store].listeners, LAMBDA x : x \notin fr.visited)

Visiting(s) ==
  /\ ~Idle
  /\ Top.resume = 0
  /\ Pending(Top) # <<>>
  /\ s = Head(Pending(Top))

Visit(s) == [stack EXCEPT ![Len(stack)].visited = @ \cup {s}]

\* The listener of a hook: React reads the snapshot selector(getState().value)
\* and renders again when it is not the rendered one.
NotifyHook(s) ==
  /\ Visiting(s)
  /\ subs[s].kind \in {"hook", "sel"}
  /\ LET snap == Select(subs[s].sel, stores[subs[s].store].value)
     IN  subs' = IF ObjectIs(snap, subs[s].seen) THEN subs
                 ELSE [subs EXCEPT ![s].seen = snap, ![s].calls = @ + 1]
  /\ stack' = Visit(s)
  /\ UNCHANGED <<globalStates, stores, writes, firstInit, lastCall, media,
                 env>>

\* useSyncExternalStore's check of a new snapshot against the rendered one:
\* Object.is.
SnapshotChanged(s, snap) == ~ObjectIs(snap, subs[s].seen)

\* The listener of that component: React takes the snapshot and renders
\* again when it is not the rendered one.
NotifySelectorEq(s) ==
  /\ Visiting(s)
  /\ subs[s].kind = "selEq"
  /\ LET snap == Select(subs[s].sel, stores[subs[s].store].value)
     IN  subs' = IF SnapshotChanged(s, snap)
                 THEN [subs EXCEPT ![s].seen = snap, ![s].calls = @ + 1]
                 ELSE subs
  /\ stack' = Visit(s)
  /\ UNCHANGED <<globalStates, stores, writes, firstInit, lastCall, media,
                 env>>

\* if (!Object.is(newValue, prevValue)) { callback(newValue, prevValue); ... }
Differs(newValue, prevValue) == ~ObjectIs(newValue, prevValue)

\* The listener of subscribeGlobalState when the value is the one it holds:
\* the callback is not called.
NotifySame(s) ==
  /\ Visiting(s)
  /\ subs[s].kind = "ext"
  /\ ~Differs(Top.state, subs[s].seen)
  /\ stack' = Visit(s)
  /\ UNCHANGED <<globalStates, stores, subs, writes, firstInit,
                 lastCall, media, env>>

\* Does the callback of s write back when it is called with newValue ?
WritesBack(s, newValue) ==
  /\ subs[s].beh # NoWrite
  /\ ~ObjectIs(newValue, subs[s].beh)
  /\ globalStates[subs[s].key] # NoStore

\* The listener of subscribeGlobalState when the value differs: the callback
\* is called and returns, then prevValue = newValue.
NotifyChanged(s) ==
  /\ Visiting(s)
  /\ subs[s].kind = "ext"
  /\ Differs(Top.state, subs[s].seen)
  /\ ~WritesBack(s, Top.state)
  /\ subs' = [subs EXCEPT ![s].calls = @ + 1, ![s].seen = Top.state,
                          ![s].last = Top.rev, ![s].arg = Top.state]
  /\ stack' = Visit(s)
  /\ UNCHANGED <<globalStates, stores, writes, firstInit, lastCall, media,
                 env>>

\* The same, with a callback that calls setGlobalState(key, m): the write is
\* committed and its round runs inside the callback; prevValue is assigned
\* only after the callback has returned (CallbackReturns).
NotifyChangedWrite(s) ==
  /\ Visiting(s)
  /\ subs[s].kind = "ext"
  /\ Differs(Top.state, subs[s].seen)
  /\ WritesBack(s, Top.state)
  /\ LET st == globalStates[subs[s].key]
         u == Val(subs[s].beh)
         cur == stores[st].value
         newv == SetValueResult(stores[st].isObject, cur, u, NewId(st))
     IN  /\ subs' = [subs EXCEPT ![s].calls = @ + 1, ![s].last = Top.rev,
                                  ![s].arg = Top.state]
         /\ stores' = Commit(st, newv)
         /\ stack' = Append([Visit(s) EXCEPT ![Len(stack)].resume = s],
                            Frame(st, u, newv, cur))
  /\ UNCHANGED <<globalStates, writes, firstInit, lastCall, media, env>>

\* A set that holds a lock while it notifies: the nested set of a callback
\* waits for it, and the callback never returns.
CallbackBlocked ==
  /\ ~Idle
  /\ Top.resume # 0
  /\ FALSE
  /\ UNCHANGED vars

\* The callback that wrote back returns: prevValue = newValue.
CallbackReturns ==
  /\ ~Idle
  /\ Top.resume # 0
  /\ subs' = [subs EXCEPT ![Top.resume].seen = Top.state]
  /\ stack' = [stack EXCEPT ![Len(stack)].resume = 0]
  /\ UNCHANGED <<globalStates, stores, writes, firstInit, lastCall, media,
                 env>>

\* An unsubscribe whose deletion waits for the round to end: the listener
\* stays in the list the round iterates.
UnsubscribedLate(ss, st, b) == ss

\* What a callback that calls the unsubscribe function of b leaves:
\* listeners.delete(listener) on the live Set that forEach iterates.
Unsubscribed(ss, st, b) == RemoveListener(ss, st, b)

\* The listener of subscribeGlobalState when the value differs and the
\* callback calls the unsubscribe function of subscriber b of the same
\* store (its own included): b's listener leaves the Set at once.
NotifyChangedUnsubscribe(s, b) ==
  /\ Visiting(s)
  /\ subs[s].kind = "ext"
  /\ Differs(Top.state, subs[s].seen)
  /\ ~WritesBack(s, Top.state)
  /\ subs[b].kind = "ext" /\ subs[b].active
  /\ subs[b].store = subs[s].store
  /\ subs' = [[subs EXCEPT ![s].calls = @ + 1, ![s].seen = Top.state,
                           ![s].last = Top.rev, ![s].arg = Top.state]
                EXCEPT ![b].active = FALSE, ![b].gone = Top.rev]
  /\ stores' = Unsubscribed(stores, subs[b].store, b)
  /\ stack' = Visit(s)
  /\ UNCHANGED <<globalStates, writes, firstInit, lastCall, media, env>>

\* let prevValue = store.getState().value, read when subscribeGlobalState
\* is called.
SubscribedAt(st) == stores[st].value

\* The same listener when the callback calls subscribeGlobalState(key, cb2)
\* on its own key: the new listener joins the Set that forEach iterates,
\* and forEach will reach it in this round.
NotifyChangedSubscribe(s) ==
  /\ Visiting(s) /\ CanAdd
  /\ subs[s].kind = "ext"
  /\ Differs(Top.state, subs[s].seen)
  /\ ~WritesBack(s, Top.state)
  /\ globalStates[subs[s].key] # NoStore
  /\ LET st == globalStates[subs[s].key]
         n == Len(subs) + 1
     IN  /\ subs' = Append([subs EXCEPT ![s].calls = @ + 1,
                                        ![s].seen = Top.state,
                                        ![s].last = Top.rev,
                                        ![s].arg = Top.state],
                           NewSub("ext", subs[s].key, st, TRUE, "",
                                  SubscribedAt(st), NoWrite))
         /\ stores' = AddListener(stores, st, n)
  /\ stack' = Visit(s)
  /\ UNCHANGED <<globalStates, writes, firstInit, lastCall, media, env>>

\* The callback that wrote back calls subscribeGlobalState(key, cb2) once
\* its setGlobalState has returned, before it returns itself.
CallbackSubscribes ==
  /\ ~Idle /\ CanAdd
  /\ Top.resume # 0
  /\ globalStates[subs[Top.resume].key] # NoStore
  /\ LET key == subs[Top.resume].key
         st == globalStates[key]
         n == Len(subs) + 1
     IN  /\ subs' = Append(subs, NewSub("ext", key, st, TRUE, "",
                                        SubscribedAt(st), NoWrite))
         /\ stores' = AddListener(stores, st, n)
  /\ UNCHANGED <<globalStates, stack, writes, firstInit, lastCall, media, env>>

\* The callback that wrote back calls the unsubscribe function of b once
\* its setGlobalState has returned, before it returns itself.
CallbackUnsubscribes(b) ==
  /\ ~Idle
  /\ Top.resume # 0
  /\ subs[b].kind = "ext" /\ subs[b].active
  /\ subs[b].store = subs[Top.resume].store
  /\ subs' = [subs EXCEPT ![b].active = FALSE, ![b].gone = Top.rev]
  /\ stores' = Unsubscribed(stores, subs[b].store, b)
  /\ UNCHANGED <<globalStates, stack, writes, firstInit, lastCall, media, env>>

\* forEach has called every listener: the set of zustand returns.  On a
\* store with persistence, persist's set then calls setItem, which writes the
\* state the store has now, and setValue returns; when setItem throws, the
\* error leaves setValue and every call that is waiting for it.
EndRound ==
  /\ ~Idle
  /\ Top.resume = 0
  /\ Pending(Top) = <<>>
  /\ LET st == Top.store
         m == StorageImpl(stores[st].storage)
     IN  IF stores[st].storage = "none"
         THEN /\ stack' = SubSeq(stack, 1, Len(stack) - 1)
              /\ UNCHANGED <<media, lastCall>>
         ELSE IF media[m].full
         THEN /\ stack' = <<>>
              /\ lastCall' = Threw(QuotaMessage)
              /\ UNCHANGED media
         ELSE /\ stack' = SubSeq(stack, 1, Len(stack) - 1)
              /\ media' = SetItem(media, m, stores[st].name,
                                  Json(Serialize(stores[st].value)))
              /\ UNCHANGED lastCall
  /\ UNCHANGED <<globalStates, stores, subs, writes, firstInit, env>>

\* ------------------------------------------- selectors with a comparison mode
\* The selectors of useGlobalSelector(key, selector, equalityMode): one field
\* (state) => state.a, or a value built on every evaluation,
\*   "pair"  (state) => ({ a: state.a, b: state.b })
\*   "list"  (state) => [state.a, state.b]
\* allocated at reference id.
SelectFresh(sel, v, id) ==
  CASE sel = "pair" -> Obj(id, [k \in {"a", "b"} |-> v.fs[k]])
    [] sel = "list" -> Arr(id, [k \in {"0", "1"} |->
                                  IF k = "0" THEN v.fs["a"] ELSE v.fs["b"]])
    [] OTHER -> Select(sel, v)

\* zustand's shallow(x, y): identical, or two objects with the same keys
\* holding identical values.
ShallowEqual(x, y) ==
  IF ObjectIs(x, y) THEN TRUE
  ELSE IF ~(IsRef(x) /\ IsRef(y)) THEN FALSE
  ELSE /\ DOMAIN x.fs = DOMAIN y.fs
       /\ \A k \in DOMAIN x.fs : x.fs[k] = y.fs[k]

\* A hook that never compares shallowly: every selection is compared with
\* Object.is.
UsesShallowNever(mode, selected) == FALSE

\* A hook that compares shallowly only when it is asked to: no mode always
\* means Object.is.
UsesShallowWhenAsked(mode, selected) == mode = "shallow"

\* Does a render subscribe through useShallow ?  equalityMode 'shallow', or no
\* mode and a selected value that is a non-null object and not a React
\* element.
UsesShallow(mode, selected) ==
  \/ mode = "shallow"
  \/ mode = "auto" /\ IsNonNullObject(selected) /\ ~IsValidElement(selected)

\* A mounted useGlobalSelector: the hook record with its mode and the
\* comparison its last render chose.
NewSelector(key, st, sel, mode, seen) ==
  [mode |-> mode, shallow |-> UsesShallow(mode, seen)]
    @@ NewSub("sel2", key, st, TRUE, sel, seen, NoWrite)

CanSelect == Cardinality(OfKind({"sel2"})) < MaxSubs

\* useGlobalSelector(key, selector, equalityMode) in a component that mounts.
UseGlobalSelectorMode(key, sel, mode) ==
  /\ Idle
  /\ globalStates[key] # NoStore => CanSelect
  /\ LET st == globalStates[key]
         c == Len(subs) + 1
     IN  IF st = NoStore
         THEN /\ lastCall' = Threw(NotFoundMessage(key))
              /\ UNCHANGED <<stores, subs>>
         ELSE /\ stores' = AddListener(stores, st, c)
              /\ subs' = Append(subs,
                           NewSelector(key, st, sel, mode,
                                       SelectFresh(sel, stores[st].value, nextId)))
              /\ lastCall' = Returned
  /\ UNCHANGED <<globalStates, stack, writes, firstInit, media, env>>

\* A listener that renders again on every write.
NotifySelectorAlways(s) ==
  /\ Visiting(s)
  /\ subs[s].kind = "sel2"
  /\ subs' = [subs EXCEPT
                ![s].seen = SelectFresh(subs[s].sel,
                                        stores[subs[s].store].value, nextId),
                ![s].calls = @ + 1]
  /\ stack' = Visit(s)
  /\ UNCHANGED <<globalStates, stores, writes, firstInit, lastCall, media,
                 env>>

\* The listener of a useGlobalSelector hook: the selector is evaluated on the
\* store's value; through useShallow the previous selection is kept when the
\* new one is shallow-equal; React renders again when the snapshot is not the
\* rendered one, and the render chooses the comparison again.
NotifySelector(s) ==
  /\ Visiting(s)
  /\ subs[s].kind = "sel2"
  /\ LET next == SelectFresh(subs[s].sel, stores[subs[s].store].value, nextId)
         snap == IF subs[s].shallow /\ ShallowEqual(subs[s].seen, next)
                 THEN subs[s].seen ELSE next
     IN  subs' = IF ObjectIs(snap, subs[s].seen) THEN subs
                 ELSE [subs EXCEPT
                         ![s].seen = snap,
                         ![s].calls = @ + 1,
                         ![s].shallow = UsesShallow(subs[s].mode, snap)]
  /\ stack' = Visit(s)
  /\ UNCHANGED <<globalStates, stores, writes, firstInit, lastCall, media,
                 env>>

\* ----------------------------------------------------- the specifications
\* SpecStore: the store of one key under every kind of write: every initial
\* value and updater, the three writers, the two resets and repeated
\* creating calls.
NextStore ==
  \/ \E v \in InitInputs(nextId) : UseGlobalState("k1", v)
  \/ \E h \in OfKind({"hook"}) : \E v \in InitInputs(nextId) : Rerender(h, v)
  \/ \E h \in OfKind({"hook"}) :
       \E u \in UpdaterInputs(ValueOf(subs[h].store), LitId(subs[h].store)) :
         HookSetValue(h, u)
  \/ \E h \in OfKind({"hook"}) : HookReset(h)
  \/ UseGlobalSetter("k1")
  \/ \E c \in OfKind({"setter"}) :
       \E u \in UpdaterInputs(ValueOf(subs[c].store), LitId(subs[c].store)) :
         SetterSetValue(c, u)
  \/ \E u \in UpdaterInputs(getGlobalState("k1"), LitId(globalStates["k1"])) :
       SetGlobalState("k1", u)
  \/ ResetGlobalState("k1")
  \/ \E s \in SubIds : NotifyHook(s)
  \/ EndRound

SpecStore == Init /\ [][NextStore]_vars

\* The initial values and updaters of the specifications about two keys.
KeysInits(lit) == { Num(0), Obj(lit, [k \in {"a", "b"} |-> 0]) }

KeysUpdaters(lit) == { Val(Num(1)), Val(Obj(lit, [k \in {"a"} |-> 1])) }

\* SpecShared: the accessors of one key through creating calls, renders,
\* writes and the clearing of the registry, with numbers as values.
SharedInits == { Num(0), Num(5) }

SharedUpdaters == { Val(Num(1)) }

NextShared ==
  \/ \E v \in SharedInits : UseGlobalState("k1", v)
  \/ \E h \in OfKind({"hook"}) : \E v \in SharedInits : Rerender(h, v)
  \/ \E h \in OfKind({"hook"}) : \E u \in SharedUpdaters : HookSetValue(h, u)
  \/ \E h \in OfKind({"hook"}) : HookReset(h)
  \/ UseGlobalSelector("k1", "value")
  \/ UseGlobalSetter("k1")
  \/ \E c \in OfKind({"setter"}) : \E u \in SharedUpdaters : SetterSetValue(c, u)
  \/ \E u \in SharedUpdaters : SetGlobalState("k1", u)
  \/ ResetGlobalState("k1")
  \/ ClearAllStates
  \/ \E s \in SubIds : NotifyHook(s)
  \/ EndRound

SpecShared == Init /\ [][NextShared]_vars

\* SpecKeys: two keys written, reset and observed side by side.
NextKeys ==
  \/ \E key \in Keys : \E v \in KeysInits(nextId) : UseGlobalState(key, v)
  \/ \E h \in OfKind({"hook"}) :
       \E u \in KeysUpdaters(LitId(subs[h].store)) : HookSetValue(h, u)
  \/ \E h \in OfKind({"hook"}) : HookReset(h)
  \/ \E key \in Keys : UseGlobalSelector(key, "a")
  \/ \E key \in Keys : \E u \in KeysUpdaters(LitId(globalStates[key])) :
       SetGlobalState(key, u)
  \/ \E key \in Keys : ResetGlobalState(key)
  \/ \E key \in Keys : SubscribeGlobalState(key, NoWrite)
  \/ \E s \in SubIds : NotifyHook(s)
  \/ \E s \in SubIds : NotifySame(s)
  \/ \E s \in SubIds : NotifyChanged(s)
  \/ EndRound

SpecKeys == Init /\ [][NextKeys]_vars

\* SpecMissing: the accessors on keys that have no store, before creation
\* and after the registry is cleared.
NextMissing ==
  \/ \E key \in Keys : UseGlobalState(key, Num(0))
  \/ \E key \in Keys : UseGlobalSelector(key, "a")
  \/ \E key \in Keys : UseGlobalSetter(key)
  \/ \E key \in Keys : SetGlobalState(key, Val(Num(1)))
  \/ \E key \in Keys : ResetGlobalState(key)
  \/ \E key \in Keys : SubscribeGlobalState(key, NoWrite)
  \/ \E s \in OfKind({"ext"}) : Unsubscribe(s)
  \/ ClearAllStates
  \/ \E s \in SubIds : NotifyHook(s)
  \/ \E s \in SubIds : NotifySame(s)
  \/ \E s \in SubIds : NotifyChanged(s)
  \/ EndRound

SpecMissing == Init /\ [][NextMissing]_vars

\* SpecSubs: the external subscriptions of one key, with callbacks that
\* only record their call and callbacks that write back.
SubsInits(lit) == { Num(0), Obj(lit, [k \in {"a", "b"} |-> 0]) }

SubsUpdaters(cur, lit) ==
  { Val(Num(1)), Val(NaN), Val(cur), Val(Obj(lit, [k \in {"a"} |-> 0])) }
  \cup { Fn(f) : f \in { g \in {"inc"} : FnDefined(g, cur) } }

NextSubs ==
  \/ \E v \in SubsInits(nextId) : UseGlobalState("k1", v)
  \/ \E beh \in Behaviours : SubscribeGlobalState("k1", beh)
  \/ \E s \in OfKind({"ext"}) : Unsubscribe(s)
  \/ \E u \in SubsUpdaters(getGlobalState("k1"), LitId(globalStates["k1"])) :
       SetGlobalState("k1", u)
  \/ ResetGlobalState("k1")
  \/ \E s \in SubIds : NotifyHook(s)
  \/ \E s \in SubIds : NotifySame(s)
  \/ \E s \in SubIds : NotifyChanged(s)
  \/ \E s \in SubIds : NotifyChangedWrite(s)
  \/ CallbackReturns
  \/ EndRound

SpecSubs == Init /\ [][NextSubs]_vars

\* The initial value and the updaters of the specifications about selectors.
SelectInits(lit) == { Obj(lit, [k \in {"a", "b", "c"} |-> 0]) }

SelectUpdaters(lit) ==
  { Val(Obj(lit, [k \in {"a"} |-> 1])), Val(Obj(lit, [k \in {"b"} |-> 1])),
    Val(Obj(lit, [k \in {"c"} |-> 1])), Val(Obj(lit, [k \in {"a"} |-> 0])) }

\* SpecSelect: an object store read through selectors of one field.
NextSelect ==
  \/ \E v \in SelectInits(nextId) : UseGlobalState("k1", v)
  \/ \E sel \in {"a", "b"} : UseGlobalSelectorMode("k1", sel, "auto")
  \/ \E u \in SelectUpdaters(LitId(globalStates["k1"])) : SetGlobalState("k1", u)
  \/ ResetGlobalState("k1")
  \/ \E s \in SubIds : NotifyHook(s)
  \/ \E s \in SubIds : NotifySelector(s)
  \/ EndRound

SpecSelect == Init /\ [][NextSelect]_vars

\* The selector calls of SpecShallow: <<selector, equalityMode>>.
ShallowCalls == { <<"pair", "auto">>, <<"pair", "shallow">>, <<"list", "auto">> }

\* SpecShallow: an object store read through selectors that build an object
\* or an array on every evaluation, with mode 'shallow' and with no mode.
NextShallow ==
  \/ \E v \in SelectInits(nextId) : UseGlobalState("k1", v)
  \/ \E c \in ShallowCalls : UseGlobalSelectorMode("k1", c[1], c[2])
  \/ \E u \in SelectUpdaters(LitId(globalStates["k1"])) : SetGlobalState("k1", u)
  \/ \E s \in SubIds : NotifyHook(s)
  \/ \E s \in SubIds : NotifySelector(s)
  \/ EndRound

SpecShallow == Init /\ [][NextShallow]_vars

\* SpecSetter: components that only take the setter of a key, next to a
\* component that reads it; the registry can be cleared and filled again.
SetterInits == { Num(0) }

SetterUpdaters == { Val(Num(5)), Fn("inc") }

NextSetter ==
  \/ \E v \in SetterInits : UseGlobalState("k1", v)
  \/ \E h \in OfKind({"hook"}) : \E v \in SetterInits : Rerender(h, v)
  \/ UseGlobalSetter("k1")
  \/ \E c \in OfKind({"setter"}) : RerenderSetter(c)
  \/ \E c \in OfKind({"setter"}) : \E u \in SetterUpdaters : SetterSetValue(c, u)
  \/ \E u \in SetterUpdaters : SetGlobalState("k1", u)
  \/ ClearAllStates
  \/ \E s \in SubIds : NotifyHook(s)
  \/ EndRound

SpecSetter == Init /\ [][NextSetter]_vars

\* SpecOrder: subscribers of one store whose callbacks may write back; the
\* store is written from outside and from inside the callbacks.
OrderInits == { Num(0) }

OrderUpdaters == { Val(Num(1)), Fn("inc") }

\* The steps of a notification round: they run inside the call of set.
RoundStep ==
  \/ \E s \in SubIds : NotifySame(s)
  \/ \E s \in SubIds : NotifyChanged(s)
  \/ \E s \in SubIds : NotifyChangedWrite(s)
  \/ CallbackReturns
  \/ EndRound

NextOrder ==
  \/ \E v \in OrderInits : UseGlobalStateRender("k1", v)
  \/ \E beh \in Behaviours : SubscribeGlobalState("k1", beh)
  \/ \E u \in OrderUpdaters : SetGlobalState("k1", u)
  \/ ResetGlobalState("k1")
  \/ \E s \in SubIds : NotifySame(s)
  \/ \E s \in SubIds : NotifyChanged(s)
  \/ \E s \in SubIds : NotifyChangedWrite(s)
  \/ CallbackReturns
  \/ EndRound

SpecOrder == Init /\ [][NextOrder]_vars

\* JavaScript runs a call to completion: once set has been called, the steps
\* of its round are taken until it returns.
SpecOrderFair == SpecOrder /\ WF_vars(RoundStep)

\* SpecPersist: one key whose store is created with and without storage,
\* written, cleared from the registry and created again, over media that may
\* hold an item from an earlier session and may reach their quota.
PersistInits(lit) == { Obj(lit, [k \in {"a", "b"} |-> 0]) }

PersistUpdaters(lit) == { Val(NaN), Val(Obj(lit, [k \in {"a"} |-> 1])) }

\* The options of the creating calls: <<storage, storageKey>>.
PersistOptions ==
  { <<"none", DefaultStorageKey>>, <<"localStorage", <<"app">>>>,
    <<"sessionStorage", DefaultStorageKey>> }

\* What an earlier session may have left under test-app's name.
StoredBefore ==
  { NoItem, Corrupt, Json(Serialize(Obj(0, [k \in {"a", "b"} |-> 9]))) }

InitPersist ==
  /\ globalStates = [k \in AllKeys |-> NoStore]
  /\ stores = <<>>
  /\ subs = <<>>
  /\ stack = <<>>
  /\ writes = 0
  /\ firstInit = [k \in AllKeys |-> Undefined]
  /\ lastCall = Returned
  /\ env = "development"
  /\ \E item \in StoredBefore :
       media = SetItem(NoMedia, "localStorage", Name(<<"app">>, "k1"), item)

NextPersist ==
  \/ \E v \in PersistInits(nextId) : \E o \in PersistOptions :
       \E resave \in BOOLEAN :
         UseGlobalStateOptions("k1", v, o[1], o[2], resave)
  \/ \E u \in PersistUpdaters(LitId(globalStates["k1"])) :
       SetGlobalState("k1", u)
  \/ ResetGlobalState("k1")
  \/ \E m \in Media : StorageFills(m)
  \/ ClearAllStates
  \/ \E s \in SubIds : NotifyHook(s)
  \/ EndRound

SpecPersist == InitPersist /\ [][NextPersist]_vars

\* SpecHydrated: one key whose store is always created over a saved value,
\* written, reset and created again, over a medium that may reach its quota.
HydratedInits(lit) == { Obj(lit, [k \in {"a", "b"} |-> 0]) }

HydratedUpdaters(lit) == { Val(Obj(lit, [k \in {"a"} |-> 1])) }

InitHydrated ==
  /\ globalStates = [k \in AllKeys |-> NoStore]
  /\ stores = <<>>
  /\ subs = <<>>
  /\ stack = <<>>
  /\ writes = 0
  /\ firstInit = [k \in AllKeys |-> Undefined]
  /\ lastCall = Returned
  /\ env = "development"
  /\ media = SetItem(NoMedia, "localStorage", Name(<<"app">>, "k1"),
                     Json(Serialize(Obj(0, [k \in {"a", "b"} |-> 9]))))

NextHydrated ==
  \/ \E v \in HydratedInits(nextId) : \E resave \in BOOLEAN :
       UseGlobalStateOptions("k1", v, "localStorage", <<"app">>, resave)
  \/ \E u \in HydratedUpdaters(LitId(globalStates["k1"])) :
       SetGlobalState("k1", u)
  \/ ResetGlobalState("k1")
  \/ \E h \in OfKind({"hook"}) : HookReset(h)
  \/ StorageFills("localStorage")
  \/ ClearAllStates
  \/ \E s \in SubIds : NotifyHook(s)
  \/ EndRound

SpecHydrated == InitHydrated /\ [][NextHydrated]_vars

\* SpecEntries: three keys that save in localStorage, 'k1' and 'k2' under the
\* default storageKey 'global-state' and 'state-k1' under 'global'.
EntryInits == { Num(0) }

EntryUpdaters == { Val(Num(1)), Val(Num(2)) }

\* The creating calls: <<key, storageKey>>.
EntryOptions ==
  { <<"k1", DefaultStorageKey>>, <<"k2", DefaultStorageKey>>,
    <<DashKey, <<"global">>>> }

EntryKeys == { o[1] : o \in EntryOptions }

NextEntries ==
  \/ \E o \in EntryOptions : \E v \in EntryInits : \E resave \in BOOLEAN :
       UseGlobalStateOptions(o[1], v, "localStorage", o[2], resave)
  \/ \E key \in EntryKeys : \E u \in EntryUpdaters : SetGlobalState(key, u)
  \/ \E key \in EntryKeys : ResetGlobalState(key)
  \/ \E s \in SubIds : NotifyHook(s)
  \/ EndRound

SpecEntries == Init /\ [][NextEntries]_vars

\* SpecConfig: one key whose creating calls pass options that differ from
\* those of the store they find, over a localStorage that holds a value
\* under 'app-k1'.
ConfigInits == { Num(0) }

ConfigUpdaters == { Val(Num(1)), Val(Num(2)) }

\* The options of the creating calls: <<storage, storageKey>>.
ConfigOptions ==
  { <<"none", DefaultStorageKey>>, <<"localStorage", <<"app">>>>,
    <<"localStorage", DefaultStorageKey>>,
    <<"sessionStorage", DefaultStorageKey>> }

\* The options are not those the store of the key was created with.
OtherOptions(key, o) ==
  globalStates[key] # NoStore
    => LET st == stores[globalStates[key]]
       IN  IF st.storage = "none" THEN o[1] # "none"
           ELSE o[1] # st.storage \/ Name(o[2], key) # st.name

InitConfig ==
  /\ globalStates = [k \in AllKeys |-> NoStore]
  /\ stores = <<>>
  /\ subs = <<>>
  /\ stack = <<>>
  /\ writes = 0
  /\ firstInit = [k \in AllKeys |-> Undefined]
  /\ lastCall = Returned
  /\ env = "development"
  /\ media = SetItem(NoMedia, "localStorage", Name(<<"app">>, "k1"),
                     Json(Num(9)))

NextConfig ==
  \/ \E o \in ConfigOptions : \E v \in ConfigInits : \E resave \in BOOLEAN :
       /\ OtherOptions("k1", o)
       /\ UseGlobalStateOptions("k1", v, o[1], o[2], resave)
  \/ \E u \in ConfigUpdaters : SetGlobalState("k1", u)
  \/ ResetGlobalState("k1")
  \/ \E m \in Media : StorageFills(m)
  \/ \E s \in SubIds : NotifyHook(s)
  \/ EndRound

SpecConfig == InitConfig /\ [][NextConfig]_vars

\* SpecReset: an object store that is written with fields its initial value
\* has and has not, and reset, in front of a hook and of callbacks.
ResetInits(lit) == { Obj(lit, [k \in {"a"} |-> 0]) }

ResetUpdaters(lit) ==
  { Val(Obj(lit, [k \in {"a"} |-> 1])), Val(Obj(lit, [k \in {"b"} |-> 1])),
    Fn("mk") }

NextReset ==
  \/ \E v \in ResetInits(nextId) : UseGlobalState("k1", v)
  \/ SubscribeGlobalState("k1", NoWrite)
  \/ \E u \in ResetUpdaters(LitId(globalStates["k1"])) : SetGlobalState("k1", u)
  \/ \E h \in OfKind({"hook"}) : HookReset(h)
  \/ ResetGlobalState("k1")
  \/ \E s \in SubIds : NotifyHook(s)
  \/ \E s \in SubIds : NotifySame(s)
  \/ \E s \in SubIds : NotifyChanged(s)
  \/ EndRound

SpecReset == Init /\ [][NextReset]_vars

\* SpecClear: the registry is cleared between creating calls of one key that
\* pass different initial values, with and without storage.
ClearInits == { Num(0), Num(5) }

ClearUpdaters == { Val(Num(1)) }

ClearOptions == { <<"none", DefaultStorageKey>>, <<"localStorage", <<"app">>>> }

NextClear ==
  \/ \E v \in ClearInits : \E o \in ClearOptions : \E resave \in BOOLEAN :
       UseGlobalStateOptions("k1", v, o[1], o[2], resave)
  \/ UseGlobalSelector("k1", "value")
  \/ UseGlobalSetter("k1")
  \/ \E u \in ClearUpdaters : SetGlobalState("k1", u)
  \/ ClearAllStates
  \/ \E s \in SubIds : NotifyHook(s)
  \/ EndRound

SpecClear == Init /\ [][NextClear]_vars

\* ------------------------------------------------------------ the claims
Frames == { stack[i] : i \in 1..Len(stack) }

Range(seq) == { seq[i] : i \in 1..Len(seq) }

\* Is r an object holding the shallow merge { ...v, ...p } ?
IsMergeOf(r, v, p) ==
  /\ IsPlainObject(r)
  /\ DOMAIN r.fs = (DOMAIN v.fs) \cup (DOMAIN p.fs)
  /\ \A k \in DOMAIN r.fs :
       r.fs[k] = IF k \in DOMAIN p.fs THEN p.fs[k] ELSE v.fs[k]

\* The write of frame fr has just been committed: no listener called yet.
JustCommitted(fr) == fr = Top /\ fr.visited = {}

\* C1 -- Merge invariant: whenever the current value v is a plain object and
\* set is called with a plain object p (not a function), the committed value
\* is the shallow merge { ...v, ...p }, whatever writes came before.
C1_MergeOnPlainObject ==
  \A fr \in Frames :
    (fr.call.k = "val" /\ IsPlainObject(fr.call.v) /\ IsPlainObject(fr.prev))
      => /\ IsMergeOf(fr.state, fr.prev, fr.call.v)
         /\ JustCommitted(fr) => stores[fr.store].value = fr.state

\* C2 -- Replace invariant: a set called with a function f commits exactly
\* f(v) for the value v the store held, never merged into v, so a chain of
\* functional sets loses no update.
C2_FunctionalReplaces ==
  \A fr \in Frames :
    fr.call.k = "fn"
      => /\ fr.state = ApplyFn(fr.call.f, fr.prev, fr.state.id)
         /\ fr.call.f = "same" => ObjectIs(fr.state, fr.prev)
         /\ JustCommitted(fr) => stores[fr.store].value = fr.state

\* A functional updater returned a fresh object { b: 1 } for an object value
\* that had the field a, after an earlier write.
C2_Witness ==
  \E fr \in Frames :
    /\ fr.call = Fn("mk")
    /\ stores[fr.store].isObject
    /\ "a" \in DOMAIN fr.prev.fs
    /\ writes = 2

\* C3 -- Reset invariant: reset on the store registered for key K commits the
\* very value supplied when K was created, whatever writes came before, with
\* no merge, and getGlobalState(K) then returns it.
C3_ResetRestoresInitial ==
  \A fr \in Frames :
    (fr.call = ResetCall /\ globalStates[stores[fr.store].key] = fr.store)
      => /\ fr.state = firstInit[stores[fr.store].key]
         /\ ObjectIs(fr.state, firstInit[stores[fr.store].key])
         /\ getGlobalState(stores[fr.store].key) = fr.state

\* A reset, after a write, of an object store whose value was not the
\* initial object any more.
C3_Witness ==
  \E fr \in Frames :
    /\ fr.call = ResetCall
    /\ IsPlainObject(fr.state)
    /\ ~ObjectIs(fr.prev, fr.state)
    /\ writes = 2
    /\ Pending(fr) = <<>>

\* The value of the store of key and its initial value are the ones before.
StoreUntouched(key) ==
  /\ globalStates'[key] = globalStates[key]
  /\ Len(stores') = Len(stores)
  /\ stores'[globalStates[key]].value = stores[globalStates[key]].value
  /\ stores'[globalStates[key]].initialState
       = stores[globalStates[key]].initialState

\* C4 -- Idempotent creation: the registry holds one store per key; a
\* creating call on a key that has a store never changes its value, returns
\* the existing value and drops the initial value it was given, so that a
\* later reset restores the value supplied first.
C4_IdempotentCreation ==
  /\ [](\A key \in Keys :
          globalStates[key] # NoStore
            => /\ stores[globalStates[key]].key = key
               /\ stores[globalStates[key]].initialState = firstInit[key])
  /\ [][\A v \in InitInputs(nextId) :
          /\ (globalStates["k1"] # NoStore /\ UseGlobalState("k1", v))
               => /\ StoreUntouched("k1")
                  /\ subs'[Len(subs')].seen = getGlobalState("k1")
          /\ \A h \in OfKind({"hook"}) :
               (globalStates["k1"] # NoStore /\ Rerender(h, v))
                 => /\ StoreUntouched("k1")
                    /\ subs'[h].seen = getGlobalState("k1")]_vars

\* Two hooks are mounted on the one store of the key, whose value is not the
\* initial one any more.
C4_Witness ==
  /\ Idle
  /\ Len(stores) = 1
  /\ Cardinality(OfKind({"hook"})) = 2
  /\ \A h \in OfKind({"hook"}) : subs[h].store = globalStates["k1"]
  /\ ~ObjectIs(getGlobalState("k1"), firstInit["k1"])

\* The mounted hooks and selectors.
Readers == { s \in OfKind({"hook", "sel"}) : subs[s].active }

\* C5 as stated -- every accessor of key K observes the same current value:
\* what a mounted hook or selector shows is what getGlobalState(K) returns.
C5_AllAccessorsAgree ==
  Idle => \A s \in Readers :
            ObjectIs(subs[s].seen,
                     Select(subs[s].sel, getGlobalState(subs[s].key)))

\* C5 -- Shared value: every hook and selector shows the current value of
\* the store it is bound to, so the accessors bound to one store agree and see
\* each other's writes; getGlobalState(K) reads the store the registry holds,
\* which is theirs unless the registry was cleared since they bound.
C5_SharedValue ==
  Idle => \A s \in Readers :
            /\ ObjectIs(subs[s].seen,
                        Select(subs[s].sel, stores[subs[s].store].value))
            /\ globalStates[subs[s].key] = subs[s].store
                 => ObjectIs(subs[s].seen,
                             Select(subs[s].sel, getGlobalState(subs[s].key)))

\* A hook and a selector on the registry's store have both rendered a
\* written value.
C5_Witness ==
  /\ Idle
  /\ \E h \in OfKind({"hook"}) : \E c \in OfKind({"sel"}) :
       /\ subs[h].store = globalStates["k1"]
       /\ subs[c].store = globalStates["k1"]
       /\ subs[h].calls > 0 /\ subs[c].calls > 0
       /\ subs[h].seen = Num(1) /\ subs[c].seen = Num(1)

\* The key whose store a step writes or notifies: the key of the round the
\* step starts, or of the innermost round running.
ActingKey ==
  IF Len(stack') > Len(stack) THEN stores[stack'[Len(stack')].store].key
  ELSE IF stack # <<>> THEN stores[Top.store].key
  ELSE ""

\* C6 -- Key isolation: a set or reset on key K1, and the notifications it
\* causes, leave the current and initial value of any other key K2 as they
\* were and call no subscriber registered on K2.
C6_KeyIsolation ==
  [][\A key \in Keys :
       (ActingKey # "" /\ ActingKey # key)
         => /\ getGlobalState(key)' = getGlobalState(key)
            /\ globalStates'[key] = globalStates[key]
            /\ globalStates[key] # NoStore
                 => stores'[globalStates[key]] = stores[globalStates[key]]
            /\ \A s \in SubIds : subs[s].key = key => subs'[s] = subs[s]]_vars

\* Both keys have a store and a subscriber; one key was written twice, the
\* other still holds its initial value and its subscriber was never called.
C6_Witness ==
  /\ Idle /\ writes = 2
  /\ \E k1 \in Keys : \E k2 \in Keys \ {k1} :
       /\ globalStates[k1] # NoStore /\ globalStates[k2] # NoStore
       /\ globalStates[k1] # globalStates[k2]
       /\ ~ObjectIs(getGlobalState(k1), firstInit[k1])
       /\ ObjectIs(getGlobalState(k2), firstInit[k2])
       /\ \E s \in SubIds : subs[s].key = k2 /\ subs[s].calls = 0
       /\ \E s \in SubIds : subs[s].key = k1 /\ subs[s].calls > 0

\* C7 -- Hard not-found: useGlobalSelector and useGlobalSetter on a key with
\* no store throw an error that names the key and tells the caller to
\* initialise it with useGlobalState first, and change nothing.
C7_HardNotFound ==
  [][\A key \in Keys :
       (globalStates[key] = NoStore
        /\ (UseGlobalSelector(key, "a") \/ UseGlobalSetter(key)))
         => /\ lastCall'.threw # NoMessage
            /\ key \in Range(lastCall'.threw)
            /\ "\" not found. Initialize it with useGlobalState first."
                 \in Range(lastCall'.threw)
            /\ UNCHANGED <<globalStates, stores, subs, stack>>]_vars

\* The call threw for a key without a store while the other key had one.
C7_Witness ==
  \E key \in Keys : \E other \in Keys \ {key} :
    /\ lastCall.threw = NotFoundMessage(key)
    /\ globalStates[key] = NoStore
    /\ globalStates[other] # NoStore

\* C8 -- Soft-missing: on a key with no store getGlobalState returns
\* undefined; setGlobalState and resetGlobalState do nothing and do not
\* throw; subscribeGlobalState returns a function that does nothing; none of
\* them changes the registry.
C8_SoftMissing ==
  [][\A key \in Keys :
       globalStates[key] = NoStore
         => /\ getGlobalState(key) = Undefined
            /\ (\/ SetGlobalState(key, Val(Num(1)))
                \/ ResetGlobalState(key)
                \/ SubscribeGlobalState(key, NoWrite))
                 => /\ lastCall'.threw = NoMessage
                    /\ UNCHANGED <<globalStates, stores, stack, writes>>
                    /\ \A s \in SubIds : subs'[s] = subs[s]
                    /\ \A s \in DOMAIN subs' : s \notin SubIds
                         => /\ subs'[s].store = NoStore
                            /\ ~subs'[s].active
            /\ \A s \in OfKind({"ext"}) :
                 (subs[s].key = key /\ subs[s].store = NoStore
                  /\ Unsubscribe(s))
                   => UNCHANGED <<globalStates, stores, subs, stack, writes>>]_vars

\* A call reported a key without a store, which still has none, and a
\* subscription taken on a missing key holds the function that does nothing.
C8_Witness ==
  \E key \in Keys :
    /\ lastCall = Missing(key)
    /\ globalStates[key] = NoStore
    /\ \E s \in OfKind({"ext"}) : subs[s].store = NoStore
    /\ \E other \in Keys : globalStates[other] # NoStore

\* C9 -- External subscription filter: the callback of a subscription is
\* called for a committed write exactly when the new value is not identical
\* (Object.is) to the value before that write, and never for a write that
\* commits an identical value.
C9_CalledIffChanged ==
  [][\A s \in OfKind({"ext"}) :
       Visiting(s)
         => ((subs'[s].calls = subs[s].calls + 1)
               <=> ~ObjectIs(Top.state, Top.prev))]_vars

InListeners(s) == \E st \in StoreIds : s \in Range(stores[st].listeners)

\* C10 -- Unsubscribe: once the function returned by subscribeGlobalState is
\* called, the callback is never called again by a later write or reset; the
\* call removes that subscription only, every other listener stays and is
\* called in every round; calling the function again changes nothing.
C10_Unsubscribe ==
  [][/\ \A s \in OfKind({"ext"}) :
          ~subs[s].active => /\ subs'[s].calls = subs[s].calls
                             /\ ~InListeners(s)
     /\ \A s \in OfKind({"ext"}) :
          Unsubscribe(s)
            => /\ ~InListeners(s)'
               /\ \A t \in SubIds \ {s} :
                    /\ subs'[t] = subs[t]
                    /\ InListeners(t)' = InListeners(t)
               /\ ~subs[s].active
                    => UNCHANGED <<globalStates, stores, subs, stack>>
     /\ EndRound
          => Range(stores[Top.store].listeners) \subseteq Top.visited]_vars

\* A subscription was cancelled, the store was then written twice and the
\* hook rendered the writes, while the cancelled callback was never called.
C10_Witness ==
  /\ Idle /\ writes = 2
  /\ \E s \in OfKind({"ext"}) : \E h \in OfKind({"hook"}) :
       /\ subs[s].store # NoStore
       /\ ~subs[s].active
       /\ subs[s].calls = 0
       /\ subs[h].store = subs[s].store
       /\ subs[h].calls = 2
       /\ ~ObjectIs(subs[s].seen, stores[subs[s].store].value)

\* ------------------------------------------------------- selector claims

Selectors == OfKind({"sel2"})

\* The fields a selector reads.
FieldsRead(sel) == IF sel \in {"pair", "list"} THEN {"a", "b"} ELSE {sel}

\* The write of the round in progress changed a field out of fields.
RoundChanged(fields) == \E k \in fields : Top.state.fs[k] # Top.prev.fs[k]

Rendered(s) == subs'[s].calls = subs[s].calls + 1

\* C11 -- Selector suppression (identity): on an object store, the component
\* of a selector of one field renders again in the round of a write exactly
\* when the write changed that field; a write of another field does not
\* render it, and every round reaches every selector of the store.
C11_SelectorIdentity ==
  [][/\ \A s \in Selectors :
          (NotifySelector(s) /\ subs[s].sel \in {"a", "b"})
            => /\ ~subs[s].shallow
               /\ Rendered(s) <=> RoundChanged(FieldsRead(subs[s].sel))
               /\ ~Rendered(s) => subs'[s] = subs[s]
     /\ EndRound
          => Selectors \cap { s \in SubIds : subs[s].store = Top.store }
               \subseteq Top.visited]_vars

\* Two selectors, on a and on b, of one store; the store was written once
\* with { b: 1 }: the selector of b rendered, the selector of a did not.
C11_Witness ==
  /\ Idle /\ writes = 1
  /\ \E s, t \in Selectors :
       /\ subs[s].sel = "a" /\ subs[t].sel = "b"
       /\ subs[s].store = subs[t].store
       /\ subs[s].calls = 0
       /\ subs[t].calls = 1
       /\ ObjectIs(subs[t].seen, Num(1))
       /\ stores[subs[s].store].value.fs["b"] = 1

\* C12 -- Selector suppression (shallow/auto): the component of a selector
\* that builds a new object or array from the fields a and b, called with mode
\* 'shallow' or with no mode, renders again in the round of a write exactly
\* when the write changed a or b; otherwise it keeps the selection it had.
C12_SelectorShallow ==
  [][\A s \in Selectors :
       (NotifySelector(s) /\ subs[s].sel \in {"pair", "list"})
         => /\ subs[s].shallow
            /\ Rendered(s) <=> RoundChanged(FieldsRead(subs[s].sel))
            /\ ~Rendered(s) => subs'[s] = subs[s]]_vars

\* A selector of [a, b] with no mode and a selector of { a, b } with mode
\* 'shallow' after two writes, { c: 1 } and { a: 1 }: each rendered once.
C12_Witness ==
  /\ Idle /\ writes = 2
  /\ \E s, t \in Selectors :
       /\ subs[s].sel = "list" /\ subs[s].mode = "auto"
       /\ subs[t].sel = "pair" /\ subs[t].mode = "shallow"
       /\ subs[s].store = subs[t].store
       /\ subs[s].calls = 1 /\ subs[t].calls = 1
       /\ stores[subs[s].store].value.fs["c"] = 1
       /\ subs[s].seen.fs["0"] = 1
       /\ subs[t].seen.fs["a"] = 1

\* --------------------------------------------------------- setter claims

Setters == OfKind({"setter"})

\* The registry holds the store the function of setter c closes over.
OnRegisteredStore(c) == globalStates[subs[c].key] = subs[c].store

\* C13 -- Setter-only access: useGlobalSetter on an existing key adds no
\* listener to the store, and no round ever calls or renders its component;
\* while the key has that store, a render returns the function of the last
\* render, writes leave the function alone, and calling the function is the
\* step setGlobalState(key, value) takes.
C13_SetterOnly ==
  [][/\ UseGlobalSetter("k1")
          => (stores' = stores /\ (globalStates["k1"] # NoStore
                                     => Len(subs') = Len(subs) + 1))
     /\ \A c \in Setters :
          /\ ~InListeners(c) /\ subs[c].calls = 0
          /\ (RerenderSetter(c) /\ OnRegisteredStore(c))
               => (subs'[c].fn = subs[c].fn /\ lastCall' = Returned)
          /\ writes' # writes => subs'[c] = subs[c]
          /\ \A u \in SetterUpdaters :
               (SetterSetValue(c, u) /\ OnRegisteredStore(c))
                 <=> (SetGlobalState(subs[c].key, u)
                        /\ OnRegisteredStore(c))]_vars

\* A setter component next to a hook of the same store: the store was
\* written through the function and through setGlobalState, the hook
\* rendered both writes, and the setter's component has its first function
\* and was never notified.
C13_Witness ==
  /\ Idle /\ writes = 2
  /\ \E c \in Setters : \E h \in OfKind({"hook"}) :
       /\ OnRegisteredStore(c)
       /\ subs[h].store = subs[c].store
       /\ subs[h].calls = 2
       /\ subs[c].calls = 0 /\ subs[c].fn = 0
       /\ ObjectIs(stores[subs[c].store].value, Num(6))

\* ------------------------------------------------- replacement claims

\* C20 -- Replace on a non-mergeable updater: whenever the current value is
\* a plain object and set is called with an array, null or a primitive (not
\* a function), the committed value is exactly the updater; only a plain
\* object updater is merged.
C20_ReplaceOnNonMergeable ==
  \A fr \in Frames :
    (fr.call.k = "val" /\ IsPlainObject(fr.prev) /\ ~IsPlainObject(fr.call.v))
      => /\ fr.state = fr.call.v
         /\ JustCommitted(fr) => stores[fr.store].value = fr.call.v

\* ------------------------------------------------- notification claims

\* A step that commits a write: a call of set or reset by the caller, or the
\* set a callback calls.
WriteStep ==
  writes' = writes + 1 \/ \E s \in SubIds : NotifyChangedWrite(s)

\* C16 -- Synchronous, undropped notification: every committed write, one
\* that commits the current value included, starts a round on the store's
\* listener list inside the writing call; the call returns only when every
\* listener on the list has been notified, and nothing else runs in between.
C16_SynchronousNotification ==
  [][/\ WriteStep
          => /\ Len(stack') = Len(stack) + 1
             /\ Top'.visited = {}
             /\ Top'.state = stores'[Top'.store].value
             /\ stores'[Top'.store].listeners = stores[Top'.store].listeners
     /\ EndRound
          => Range(stores[Top.store].listeners) \subseteq Top.visited
     /\ ~Idle
          => /\ writes' = writes /\ lastCall' = lastCall
             /\ \A st \in StoreIds :
                  stores'[st].listeners = stores[st].listeners]_vars

\* A round on two listeners for a write that committed the value the store
\* already had: both listeners have been notified, the call has not returned.
C16_Witness ==
  /\ ~Idle
  /\ ObjectIs(Top.state, Top.prev)
  /\ Len(stores[Top.store].listeners) = 2
  /\ Range(stores[Top.store].listeners) = Top.visited
  /\ Pending(Top) = <<>>

Callbacks == OfKind({"ext"})

\* The callback of s is called in this step.
Called(s) == NotifyChanged(s) \/ NotifyChangedWrite(s)

NestedCommit ==
  /\ \A s \in Callbacks :
       NotifyChangedWrite(s)
         => /\ Len(stack') = Len(stack) + 1
            /\ Top'.store = globalStates[subs[s].key]
            /\ ObjectIs(Top'.state, subs[s].beh)
  /\ Len(stack') > Len(stack)
       => /\ Top'.rev = stores[Top'.store].rev + 1
          /\ stores'[Top'.store].rev = Top'.rev
          /\ stores'[Top'.store].value = Top'.state
  /\ Len(stack') <= Len(stack)
       => \A st \in StoreIds :
            /\ stores'[st].value = stores[st].value
            /\ stores'[st].rev = stores[st].rev

\* C18 -- Re-entrant writes: the set a callback calls during its own
\* notification is committed and starts its round at once, inside the
\* callback; the store's value changes in commits only, so it is the value of
\* the last commit when the outermost set has returned; and every round that
\* was started ends, so that every set of the chain returns.
C18_ReentrantWrites ==
  /\ [][NestedCommit]_vars
  /\ ~Idle ~> Idle

\* A callback that writes 2 back was called for a write of 1 and, inside
\* that call, for its own write of 2; every call has returned and the store
\* holds 2.
C18_Witness ==
  /\ Idle /\ writes = 1
  /\ \E s \in Callbacks :
       /\ subs[s].store # NoStore
       /\ ObjectIs(subs[s].beh, Num(2))
       /\ subs[s].calls = 2
       /\ stores[subs[s].store].rev = 2
       /\ ObjectIs(stores[subs[s].store].value, Num(2))

\* --------------------------------------------------- persistence claims

\* The set of a store with persistence returns in this step.
SaveStep == EndRound /\ stores[Top.store].storage # "none"

\* The creating calls of SpecPersist that find the key without a store.
Creates(v, o, resave) ==
  /\ globalStates["k1"] = NoStore
  /\ UseGlobalStateOptions("k1", v, o[1], o[2], resave)

\* C14 -- Persistence write-through: when a set or reset of a store created
\* with storage 'localStorage' or 'sessionStorage' returns without a storage
\* failure, the item named `${storageKey}-${key}` of that medium is the
\* serialization of the store's current value ('global-state' being the default
\* storageKey); no other item changes, and no item of a medium changes unless
\* a store was created with that medium and that name.
C14_WriteThrough ==
  [][/\ (SaveStep /\ lastCall' = lastCall)
          => LET st == Top.store
             IN  /\ media'[stores[st].storage].items[stores[st].name]
                      = Json(Serialize(stores[st].value))
                 /\ \A m \in Media : \A n \in Names :
                      (m # stores[st].storage \/ n # stores[st].name)
                        => media'[m].items[n] = media[m].items[n]
     /\ \A v \in PersistInits(nextId) : \A o \in PersistOptions :
          \A resave \in BOOLEAN :
            (Creates(v, o, resave) /\ o[1] # "none")
              => /\ stores'[globalStates'["k1"]].storage = o[1]
                 /\ stores'[globalStates'["k1"]].name = o[2] \o <<"k1">>
     /\ \A m \in Media : \A n \in Names :
          media'[m].items[n] # media[m].items[n]
            => \E st \in 1..Len(stores') :
                 stores'[st].storage = m /\ stores'[st].name = n]_vars

\* A store created with storage 'sessionStorage' and no storageKey holds NaN
\* after two writes; sessionStorage has null under 'global-state-k1', and
\* localStorage has nothing.
C14_Witness ==
  /\ Idle /\ writes = 2
  /\ globalStates["k1"] # NoStore
  /\ LET st == globalStates["k1"]
     IN  /\ stores[st].storage = "sessionStorage"
         /\ stores[st].value = NaN
         /\ media["sessionStorage"].items[<<"global", "state", "k1">>]
              = Json(Null)
         /\ lastCall = Returned
  /\ \A n \in Names : media["localStorage"].items[n] = NoItem

\* C15 -- Hydration on creation: when the creating call of a key names a
\* medium that holds a saved value under `${storageKey}-${key}`, the value of
\* the new store is the saved value and not the initialState of the call; with
\* no such item, or with storage 'none', it is the initialState.
C15_HydrationOnCreation ==
  [][\A v \in PersistInits(nextId) : \A o \in PersistOptions :
       \A resave \in BOOLEAN :
         Creates(v, o, resave)
           => LET value == stores'[globalStates'["k1"]].value
              IN  IF o[1] # "none"
                     /\ media[o[1]].items[o[2] \o <<"k1">>].item = "json"
                  THEN /\ Serialize(value)
                            = media[o[1]].items[o[2] \o <<"k1">>].value
                       /\ ~ObjectIs(value, v)
                       /\ lastCall' = Returned
                  ELSE /\ ObjectIs(value, v)
                       /\ lastCall' = Returned]_vars

\* A store created with { a: 0, b: 0 } and storage 'localStorage' over a
\* medium that held { a: 9, b: 9 }: its value is { a: 9, b: 9 } before any
\* write, and its initial value the one of the call.
C15_Witness ==
  /\ Idle /\ writes = 0
  /\ globalStates["k1"] # NoStore
  /\ LET st == globalStates["k1"]
     IN  /\ stores[st].storage = "localStorage"
         /\ stores[st].value.fs["a"] = 9
         /\ stores[st].initialState.fs["a"] = 0
         /\ ~ObjectIs(stores[st].value, stores[st].initialState)
         /\ \E h \in OfKind({"hook"}) :
              subs[h].store = st /\ ObjectIs(subs[h].seen, stores[st].value)

\* C19 -- Adapter failure containment: when the medium fails while a set or
\* reset saves, or while a creating call loads, the call returns like one
\* that did not fail: nothing is thrown to the caller, the store holds the
\* committed value and every listener has been notified.
C19_FailureContained ==
  [][/\ (SaveStep /\ media[stores[Top.store].storage].full)
          => /\ lastCall' = lastCall
             /\ stack' = SubSeq(stack, 1, Len(stack) - 1)
             /\ stores'[Top.store].value = Top.state
             /\ Range(stores[Top.store].listeners) \subseteq Top.visited
     /\ \A v \in PersistInits(nextId) : \A o \in PersistOptions :
          \A resave \in BOOLEAN :
            (/\ Creates(v, o, resave)
             /\ o[1] # "none"
             /\ \/ media[o[1]].items[o[2] \o <<"k1">>] = Corrupt
                \/ media[o[1]].full)
              => lastCall' = Returned]_vars

\* C21 -- Direct replacement for non-object stores: on a store created with
\* a primitive, an array or null, set called with a value that is not a
\* function commits exactly that value, whatever the store holds: no field or
\* element of the old value is kept.
C21_DirectReplacement ==
  \A fr \in Frames :
    (fr.call.k = "val" /\ ~IsPlainObject(stores[fr.store].initialState))
      => /\ fr.state = fr.call.v
         /\ JustCommitted(fr) => stores[fr.store].value = fr.call.v

\* A store created with a value that is not a plain object held the object
\* { b: 1 } when set was called with { a: 1 }: the committed value is the
\* updater, without the field b.
C21_Witness ==
  \E fr \in Frames :
    /\ fr.call.k = "val"
    /\ ~IsPlainObject(stores[fr.store].initialState)
    /\ IsPlainObject(fr.prev) /\ "b" \in DOMAIN fr.prev.fs
    /\ IsPlainObject(fr.call.v)
    /\ DOMAIN fr.state.fs = {"a"}
    /\ stores[fr.store].value = fr.state

\* C24 -- Merge or replace by the shape of the current value: set called
\* with a plain object merges it into the value the store holds at the call
\* when that value is a plain object, whatever the store was created with,
\* and commits the fields of the updater alone when it is not.
C24_RuntimeShape ==
  \A fr \in Frames :
    (fr.call.k = "val" /\ IsPlainObject(fr.call.v))
      => IF IsPlainObject(fr.prev)
         THEN IsMergeOf(fr.state, fr.prev, fr.call.v)
         ELSE IsPlainObject(fr.state) /\ fr.state.fs = fr.call.v.fs

\* ---------------------------------------------------------- reset claims

\* A reset of the store of k1 is called in this step.
ResetStep ==
  \/ ResetGlobalState("k1") /\ globalStates["k1"] # NoStore
  \/ \E h \in OfKind({"hook"}) : HookReset(h)

\* C25 -- Reset is a full replacement: on an object store, whatever fields
\* earlier writes added or changed, a reset commits a value with exactly the
\* fields and field values of the initial value, and starts a round that
\* reaches every listener like the round of any write.
C25_ResetReplaces ==
  [][/\ ResetStep
          => /\ Len(stack') = Len(stack) + 1
             /\ Top'.call = ResetCall
             /\ Top'.visited = {}
             /\ Top'.state.fs = stores[Top'.store].initialState.fs
             /\ IsPlainObject(Top'.state)
             /\ stores'[Top'.store].value = Top'.state
             /\ stores'[Top'.store].listeners = stores[Top'.store].listeners
     /\ (EndRound /\ Top.call = ResetCall)
          => /\ Range(stores[Top.store].listeners) \subseteq Top.visited
             /\ \A s \in Range(stores[Top.store].listeners) :
                  ObjectIs(subs[s].seen, Top.state)]_vars

\* The round of a reset of a store created with { a: 0 } that held a value
\* with the field b: the hook and the callback have been notified, and the
\* value has the field a alone, with 0.
C25_Witness ==
  /\ ~Idle
  /\ Top.call = ResetCall
  /\ "b" \in DOMAIN Top.prev.fs
  /\ DOMAIN Top.state.fs = {"a"} /\ Top.state.fs["a"] = 0
  /\ stores[Top.store].value = Top.state
  /\ Pending(Top) = <<>>
  /\ \E h \in OfKind({"hook"}) : \E s \in OfKind({"ext"}) :
       /\ {h, s} \subseteq Top.visited
       /\ subs[s].calls = 2
       /\ ObjectIs(subs[h].seen, Top.state)

\* ------------------------------------------------------- registry claims

\* C22 -- Registry clear: __clearAllStates__() leaves no key with a store, so
\* that getGlobalState returns undefined and useGlobalSelector and
\* useGlobalSetter throw not-found for every key; it resets what the dropped
\* stores saved in their media; and the next creating call of a key, with or
\* without storage, makes a store whose value is the initial value of that
\* call.
C22_RegistryClear ==
  [][/\ ClearAllStates
          => /\ \A k \in Keys :
                  globalStates'[k] = NoStore /\ getGlobalState(k)' = Undefined
             /\ \A st \in StoreIds :
                  stores[st].storage # "none"
                    => media'[stores[st].storage].items[stores[st].name]
                         = NoItem
     /\ (globalStates["k1"] = NoStore
           /\ (UseGlobalSelector("k1", "value") \/ UseGlobalSetter("k1")))
          => lastCall' = Threw(NotFoundMessage("k1"))
     /\ \A v \in ClearInits : \A o \in ClearOptions : \A resave \in BOOLEAN :
          Creates(v, o, resave)
            => ObjectIs(stores'[globalStates'["k1"]].value, v)]_vars

\* ------------------------------------------------- slice: any string key
\* Creating calls on every string key, the empty one included, with writes
\* and reads on the keys they created.
InvalidInits == {Num(0), Num(5)}

NextInvalid ==
  \/ \E key \in Keys \cup {EmptyKey} : \E v \in InvalidInits :
       UseGlobalState(key, v)
  \/ \E key \in Keys \cup {EmptyKey} : SetGlobalState(key, Val(Num(1)))
  \/ \E key \in Keys \cup {EmptyKey} : ResetGlobalState(key)
  \/ \E s \in SubIds : NotifyHook(s)
  \/ EndRound

SpecInvalid == Init /\ [][NextInvalid]_vars

\* C23: a creating call whose key is the empty string fails and creates no
\* store for it; a creating call with any other key never fails.
C23_InvalidKeyRejection ==
  [][\A v \in InvalidInits :
       /\ UseGlobalState(EmptyKey, v)
            => /\ lastCall' # Returned
               /\ globalStates'[EmptyKey] = NoStore
       /\ \A key \in Keys :
            UseGlobalState(key, v)
              => lastCall' = Returned /\ globalStates'[key] # NoStore]_vars

\* A reset of any store, hook's or caller's.
AnyReset ==
  \/ \E key \in Keys : ResetGlobalState(key) /\ globalStates[key] # NoStore
  \/ \E h \in OfKind({"hook"}) : HookReset(h)

\* The callback of an external subscriber is called.
CallbackCalled == \E s \in SubIds : NotifyChanged(s) \/ NotifyChangedWrite(s)

\* C26 -- Initial value stability: no step changes the initial value a store
\* captured when it was created; every reset commits that very reference;
\* and in the round of a reset issued while the value was already that
\* reference no callback of an external subscriber is called.
C26_InitialValueStable ==
  [][/\ \A st \in StoreIds :
          stores'[st].initialState = stores[st].initialState
     /\ AnyReset
          => /\ Top'.call = ResetCall
             /\ Top'.state = stores[Top'.store].initialState
             /\ stores'[Top'.store].value = stores[Top'.store].initialState
     /\ (CallbackCalled /\ Top.call = ResetCall)
          => ~ObjectIs(Top.prev, stores[Top.store].initialState)]_vars

\* The parts of C26 that do not depend on what a subscriber holds as
\* prevValue: the captured initial value never changes and every reset
\* commits it.
C26_ResetReference ==
  [][/\ \A st \in StoreIds :
          stores'[st].initialState = stores[st].initialState
     /\ AnyReset
          => /\ Top'.state = stores[Top'.store].initialState
             /\ stores'[Top'.store].value = stores[Top'.store].initialState]_vars

\* C27 -- Previous-value argument: whenever the callback of an external
\* subscriber is called, newValue is the value its round's write committed,
\* prevValue (what the listener holds as seen) is the value the store held
\* immediately before that write, and prevValue is the newValue of the
\* subscriber's previous call (the value at subscription before any call).
C27_PrevValueArgument ==
  [][\A s \in SubIds :
       (NotifyChanged(s) \/ NotifyChangedWrite(s))
         => /\ subs'[s].arg = Top.state
            /\ ObjectIs(subs[s].seen, Top.prev)
            /\ ObjectIs(subs[s].seen, subs[s].arg)]_vars

\* C27 for callbacks that do not write: the same three facts.
C27_WithoutWriteBack ==
  [][\A s \in SubIds :
       (NotifyChanged(s) /\ \A t \in SubIds : subs[t].beh = NoWrite)
         => /\ subs'[s].arg = Top.state
            /\ ObjectIs(subs[s].seen, Top.prev)
            /\ ObjectIs(subs[s].seen, subs[s].arg)]_vars

\* C28 -- No missed write under re-entrancy: in the round of a commit that
\* changed the value, no listener of an external subscriber is passed over
\* without its callback being called, whether the commit was made by the
\* caller or from inside a callback; and a callback is called at most once
\* for a commit.
C28_NoMissedWrite ==
  [][\A s \in SubIds :
       /\ NotifySame(s) => ObjectIs(Top.state, Top.prev)
       /\ (NotifyChanged(s) \/ NotifyChangedWrite(s))
            => subs[s].last # Top.rev]_vars

\* C28 for callbacks that do not write.
C28_WithoutWriteBack ==
  [][\A s \in SubIds :
       (NotifySame(s) /\ \A t \in SubIds : subs[t].beh = NoWrite)
         => ObjectIs(Top.state, Top.prev)]_vars

\* ------------------------------- slice: callbacks that change the listeners
\* One store whose callbacks write back, unsubscribe a subscriber or
\* subscribe a new one while a round is running.
RoundInits == { Num(0) }

RoundUpdaters == { Val(Num(1)), Fn("inc") }

RoundBehaviours == { NoWrite, Num(2) }

NextRound ==
  \/ \E v \in RoundInits : UseGlobalStateRender("k1", v)
  \/ \E beh \in RoundBehaviours : SubscribeGlobalState("k1", beh)
  \/ \E u \in RoundUpdaters : SetGlobalState("k1", u)
  \/ \E s \in SubIds : Unsubscribe(s)
  \/ \E s \in SubIds : NotifySame(s)
  \/ \E s \in SubIds : NotifyChanged(s)
  \/ \E s \in SubIds : NotifyChangedWrite(s)
  \/ \E s \in SubIds : \E b \in SubIds : NotifyChangedUnsubscribe(s, b)
  \/ \E s \in SubIds : NotifyChangedSubscribe(s)
  \/ CallbackSubscribes
  \/ \E b \in SubIds : CallbackUnsubscribes(b)
  \/ CallbackReturns
  \/ EndRound

SpecRound == Init /\ [][NextRound]_vars

\* JavaScript runs a call to completion: the steps of a round are taken
\* until set returns.
SpecRoundFair == SpecRound /\ WF_vars(RoundStep)

\* A callback that is running stays on the stack until it returns, and
\* then its listener assigns prevValue = newValue.
RunningCallbacksGoOn ==
  \A i \in 1..Len(stack) :
    stack[i].resume # 0
      => /\ Len(stack') >= i
         /\ \/ stack'[i].resume = stack[i].resume
            \/ /\ i = Len(stack)
               /\ stack'[i].resume = 0
               /\ subs'[stack[i].resume].seen = stack[i].state

\* C29 -- Unsubscribe during a notification round: once a subscriber has been
\* unsubscribed, by a callback during a round included, its callback is not
\* called again, in that round or in a later one; a callback that has
\* started goes on until it returns, and every round ends.
C29_UnsubscribeDuringRound ==
  /\ [][/\ \A b \in Callbacks :
            ~subs[b].active => subs'[b].calls = subs[b].calls
        /\ RunningCallbacksGoOn]_vars
  /\ ~Idle ~> Idle

\* A round has called every listener left after the callback of one
\* subscriber unsubscribed another, subscribed before the write, that the
\* round had not reached: that one has never been called.
C29_Witness ==
  /\ ~Idle
  /\ Pending(Top) = <<>>
  /\ \E a \in Callbacks : \E b \in Callbacks \ {a} :
       /\ subs[a].last = Top.rev
       /\ subs[b].gone = Top.rev
       /\ subs[b].since < Top.rev
       /\ b \notin Top.visited
       /\ subs[b].calls = 0

\* The callback of s is called in this step, whatever it does.
Invoked(s) == subs'[s].calls > subs[s].calls

\* A subscription is made in this step, from the caller or from a callback.
Registered ==
  /\ Len(subs') = Len(subs) + 1
  /\ subs'[Len(subs')].kind = "ext"
  /\ subs'[Len(subs')].active

C30_WithoutWriteBack ==
  [][/\ \A s \in Callbacks :
          (Invoked(s) /\ \A t \in SubIds : subs[t].beh = NoWrite)
            => /\ Top.rev > subs[s].since
               /\ subs[s].calls = 0 => ObjectIs(subs[s].seen, subs[s].arg)
     /\ Registered
          => ObjectIs(subs'[Len(subs')].seen,
                      stores[subs'[Len(subs')].store].value)]_vars

\* --------------------------- slice: a selection that changes its kind
\* A store of a number whose value is replaced by numbers, null, objects,
\* arrays and React elements, read whole through useGlobalSelector with no
\* mode: the selection changes between primitives and objects.
AutoInits == { Num(0) }

AutoUpdaters(lit) ==
  { Val(Num(1)), Val(Null), Val(Obj(lit, [k \in {"a"} |-> 0])),
    Val(Arr(lit, [k \in {"0"} |-> 0])),
    Val(Elem(lit, [k \in {"props"} |-> 0])) }

NextAuto ==
  \/ \E v \in AutoInits : UseGlobalStateRender("k1", v)
  \/ UseGlobalSelectorMode("k1", "value", "auto")
  \/ \E u \in AutoUpdaters(LitId(globalStates["k1"])) : SetGlobalState("k1", u)
  \/ ResetGlobalState("k1")
  \/ \E s \in SubIds : NotifySelector(s)
  \/ EndRound

SpecAuto == Init /\ [][NextAuto]_vars

\* What the selector of s selects from the value its store holds now.
NextSelected(s) ==
  SelectFresh(subs[s].sel, stores[subs[s].store].value, nextId)

EqualityInits(lit) == { Obj(lit, [k \in {"a", "b"} |-> 0]) }

EqualityUpdaters(lit) ==
  { Val(Obj(lit, [k \in {"a"} |-> 1])), Val(Obj(lit, [k \in {"b"} |-> 1])) }

NextEquality ==
  \/ \E v \in EqualityInits(nextId) : UseGlobalStateRender("k1", v)
  \/ \E eq \in EqualityFns : UseGlobalSelectorEq("k1", "value", eq)
  \/ \E u \in EqualityUpdaters(LitId(globalStates["k1"])) :
       SetGlobalState("k1", u)
  \/ ResetGlobalState("k1")
  \/ \E s \in SubIds : NotifySelectorEq(s)
  \/ EndRound

SpecEquality == Init /\ [][NextEquality]_vars

\* C32 -- Custom equality function: the component of a useGlobalSelector
\* call with an equality function renders again in the round of a write
\* exactly when the function reports the previous and the new selection as
\* not equal.
C32_CustomEquality ==
  [][\A s \in OfKind({"selEq"}) :
       NotifySelectorEq(s)
         => (Rendered(s)
               <=> ~EqualityFn(subs[s].eq, subs[s].seen,
                               Select(subs[s].sel,
                                      stores[subs[s].store].value)))]_vars

\* ------------------------------------- slice: the accessors in either build
\* The accessors on keys with and without a store, in a development and in
\* a production build.
InitEnv ==
  /\ globalStates = [k \in AllKeys |-> NoStore]
  /\ stores = <<>>
  /\ subs = <<>>
  /\ stack = <<>>
  /\ writes = 0
  /\ firstInit = [k \in AllKeys |-> Undefined]
  /\ lastCall = Returned
  /\ media = NoMedia
  /\ env \in Envs

NextEnv ==
  \/ \E key \in Keys : UseGlobalState(key, Num(0))
  \/ \E key \in Keys : SetGlobalState(key, Val(Num(1)))
  \/ \E key \in Keys : ResetGlobalState(key)
  \/ \E key \in Keys : SubscribeGlobalState(key, NoWrite)
  \/ ClearAllStates
  \/ \E s \in SubIds : NotifyHook(s)
  \/ \E s \in SubIds : NotifySame(s)
  \/ \E s \in SubIds : NotifyChanged(s)
  \/ EndRound

SpecEnv == InitEnv /\ [][NextEnv]_vars

\* setGlobalState, resetGlobalState or subscribeGlobalState is called on key.
SoftCall(key) ==
  \/ SetGlobalState(key, Val(Num(1)))
  \/ ResetGlobalState(key)
  \/ SubscribeGlobalState(key, NoWrite)

\* The call changed neither the registry nor a store, started no round and
\* left the existing subscribers as they were.
NoOp ==
  /\ UNCHANGED <<globalStates, stores, stack, firstInit>>
  /\ \A s \in SubIds : subs'[s] = subs[s]
  /\ \A s \in (1..Len(subs')) \ SubIds : ~subs'[s].active

\* C33 as stated -- Soft-missing is always reported: setGlobalState,
\* resetGlobalState and subscribeGlobalState on a key without a store report
\* the key and do nothing else, in a development and in a production build.
C33_AlwaysReported ==
  [][\A key \in Keys :
       (globalStates[key] = NoStore /\ SoftCall(key))
         => lastCall' = Missing(key) /\ NoOp]_vars

\* C33 amended -- the same calls report the key in every build but a
\* production build, where they return without a report; they do nothing
\* else in either.
C33_ReportedOutsideProduction ==
  [][\A key \in Keys :
       (globalStates[key] = NoStore /\ SoftCall(key))
         => /\ env # "production" => lastCall' = Missing(key)
            /\ env = "production" => lastCall' = Returned
            /\ NoOp]_vars

\* In a production build subscribeGlobalState was called last, on a key
\* without a store, while another key has one: nothing was reported.
C33_Witness ==
  /\ env = "production"
  /\ lastCall = Returned
  /\ Len(subs) > 0
  /\ subs[Len(subs)].kind = "ext"
  /\ subs[Len(subs)].store = NoStore
  /\ globalStates[subs[Len(subs)].key] = NoStore
  /\ \E other \in Keys : globalStates[other] # NoStore

\* The subscriptions taken on a key that had no store.
Dead == { s \in OfKind({"ext"}) : subs[s].store = NoStore }

\* C34 -- A subscription attempted on a missing key stays dead: its callback
\* has never been called and its listener is in no store, whatever creating
\* calls, writes and resets followed on its key.
C34_StaysDead ==
  \A s \in Dead :
    /\ subs[s].calls = 0
    /\ ~subs[s].active
    /\ \A st \in StoreIds :
         \A i \in 1..Len(stores[st].listeners) : stores[st].listeners[i] # s

\* A subscription was taken on a key without a store; the key was created
\* afterwards and its store has been written twice: the callback was not
\* called.
C34_Witness ==
  /\ Idle
  /\ \E s \in Dead :
       /\ globalStates[subs[s].key] # NoStore
       /\ stores[globalStates[subs[s].key]].rev = 2
       /\ ~ObjectIs(stores[globalStates[subs[s].key]].value,
                    stores[globalStates[subs[s].key]].initialState)
       /\ subs[s].calls = 0

\* The set of a reset on a store with persistence returns in this step.
ResetSaveStep == SaveStep /\ Top.call = ResetCall

\* The item a store with persistence saves under.
Entry(md, st) == md[StorageImpl(stores[st].storage)].items[stores[st].name]

\* A creating call of SpecHydrated loads the saved value: the new store holds
\* a value that is not the initialState of the call.
CreatesHydrated(v, resave) ==
  /\ globalStates["k1"] = NoStore
  /\ UseGlobalStateOptions("k1", v, "localStorage", <<"app">>, resave)
  /\ ~ObjectIs(stores'[globalStates'["k1"]].value, v)

SameMedium(s1, s2) ==
  /\ s1 # s2
  /\ stores[s1].storage # "none" /\ stores[s2].storage # "none"
  /\ StorageImpl(stores[s1].storage) = StorageImpl(stores[s2].storage)
  /\ stores[s1].key # stores[s2].key

\* A creating call of SpecEntries that finds its key without a store.
CreatesEntry(o, v, resave) ==
  /\ globalStates[o[1]] = NoStore
  /\ UseGlobalStateOptions(o[1], v, "localStorage", o[2], resave)

\* Storage-entry separation, as stated: two stores of one medium with
\* different (storageKey, key) pairs have different items, a save of one
\* leaves the item of the other, and a new store does not load the item of
\* another.
C36_SeparationByPair ==
  [][/\ \A s1, s2 \in StoreIds :
          SameMedium(s1, s2)
            => /\ stores[s1].name # stores[s2].name
               /\ (SaveStep /\ Top.store = s1)
                    => Entry(media', s2) = Entry(media, s2)
     /\ \A o \in EntryOptions : \A v \in EntryInits : \A resave \in BOOLEAN :
          CreatesEntry(o, v, resave)
            => \A s2 \in StoreIds :
                 stores[s2].storage # "none"
                   => /\ stores'[globalStates'[o[1]]].name # stores[s2].name
                      /\ Entry(media', s2) = Entry(media, s2)]_vars

\* C36 -- Storage-entry separation: two persisted stores of one medium whose
\* names `${storageKey}-${key}` differ never read or write the same item: a
\* save of one leaves the item of the other, and a store that is created
\* loads and saves the item of its own name only.
C36_SeparationByName ==
  [][/\ \A s1, s2 \in StoreIds :
          (/\ SameMedium(s1, s2)
           /\ stores[s1].name # stores[s2].name
           /\ SaveStep /\ Top.store = s1)
            => Entry(media', s2) = Entry(media, s2)
     /\ \A o \in EntryOptions : \A v \in EntryInits : \A resave \in BOOLEAN :
          CreatesEntry(o, v, resave)
            => LET new == stores'[globalStates'[o[1]]]
                   own == media["localStorage"].items[new.name]
               IN  /\ new.name = Name(o[2], o[1])
                   /\ new.value = IF own.item = "json" THEN own.value ELSE v
                   /\ \A s2 \in StoreIds :
                        (stores[s2].storage # "none"
                           /\ stores[s2].name # new.name)
                          => Entry(media', s2) = Entry(media, s2)]_vars

\* 'k1' and 'k2' were created under the default storageKey and written once
\* each with different values: localStorage holds the value of each under
\* its own name.
C36_Witness ==
  /\ Idle /\ writes = 2
  /\ globalStates["k1"] # NoStore /\ globalStates["k2"] # NoStore
  /\ LET s1 == globalStates["k1"]
         s2 == globalStates["k2"]
     IN  /\ SameMedium(s1, s2)
         /\ stores[s1].rev = 1 /\ stores[s2].rev = 1
         /\ stores[s1].value # stores[s2].value
         /\ Entry(media, s1) = Json(Serialize(stores[s1].value))
         /\ Entry(media, s2) = Json(Serialize(stores[s2].value))

\* A creating call of SpecConfig.
CallsWith(o, v, resave) == UseGlobalStateOptions("k1", v, o[1], o[2], resave)

\* C37 -- Configuration is fixed at first creation: the first creating call
\* of a key gives its store the medium and the name of its options; a later
\* creating call with other options changes neither, loads nothing and
\* saves nothing; a store created with storage 'none' changes no item in
\* any set or reset; and a store created with a medium saves every set and
\* reset under the name of its first options, and nowhere else.
C37_ConfigurationFixed ==
  [][/\ \A st \in StoreIds :
          /\ stores'[st].storage = stores[st].storage
          /\ stores'[st].name = stores[st].name
     /\ \A o \in ConfigOptions : \A v \in ConfigInits : \A resave \in BOOLEAN :
          CallsWith(o, v, resave)
            => IF globalStates["k1"] = NoStore
               THEN LET new == stores'[globalStates'["k1"]]
                    IN  /\ new.storage = o[1]
                        /\ o[1] # "none" => new.name = Name(o[2], "k1")
                        /\ o[1] = "none"
                             => media' = media /\ ObjectIs(new.value, v)
               ELSE LET st == globalStates["k1"]
                    IN  /\ media' = media
                        /\ ObjectIs(stores'[st].value, stores[st].value)
                        /\ globalStates' = globalStates
     /\ (EndRound /\ stores[Top.store].storage = "none")
          => media' = media /\ lastCall' = lastCall
     /\ (SaveStep /\ ~media[stores[Top.store].storage].full)
          => Entry(media', Top.store)
               = Json(Serialize(stores[Top.store].value))
     /\ \A m \in Media : \A n \in Names :
          media'[m].items[n] # media[m].items[n]
            => \E st \in 1..Len(stores') :
                 stores'[st].storage = m /\ stores'[st].name = n]_vars

\* A store created with 'sessionStorage' and the default storageKey is
\* rendered by a second component that passes other options, and written
\* twice: its value is under 'global-state-k1' of sessionStorage, and
\* localStorage is as it was.
C37_Witness ==
  /\ Idle /\ writes = 2
  /\ globalStates["k1"] # NoStore
  /\ Cardinality({ h \in OfKind({"hook"}) :
                     subs[h].store = globalStates["k1"] }) = 2
  /\ LET st == stores[globalStates["k1"]]
     IN  /\ st.storage = "sessionStorage"
         /\ st.value = Num(2)
         /\ media["sessionStorage"].items[Name(DefaultStorageKey, "k1")]
              = Json(Num(2))
         /\ \A n \in Names :
              media["localStorage"].items[n]
                = IF n = Name(<<"app">>, "k1") THEN Json(Num(9)) ELSE NoItem

====
